---------------------------- MODULE Spec2Model ----------------------------
(***************************************************************************)
(* Model of houdini_package_runner.items.dialog_script: extraction of the  *)
(* Python fragments of a DialogScript container, their processing through  *)
(* a runner, and the reinsertion of the changed fragments; and of the      *)
(* callers above it, HoudiniPackageRunner.run and                          *)
(* BinaryDigitalAssetFile.process.                                          *)
(*                                                                          *)
(* Text is a sequence of one-character strings.  Offsets are the 0-based   *)
(* offsets of the Python source; At and Slice read a text the way Python's *)
(* s[i] and s[a:b] do.                                                      *)
(***************************************************************************)
EXTENDS Integers, Sequences, FiniteSets, TLC

VARIABLES
    \* DialogScriptItem and its process() call
    layout,             \* the blocks the container was written from
    ds_contents,        \* self._ds_contents
    disk,               \* the text of the file at self.path
    write_back,         \* self.write_back
    contents_changed,   \* self.contents_changed
    pc,                 \* where process() is: start, loop, done or raised
    files_to_process,   \* the items _gather_items returned
    idx,                \* the loop's position in files_to_process (0-based)
    result,             \* the status so far
    items_with_changed_contents,  \* positions in files_to_process, as a list
    temp_files,         \* the files of runner.temp_dir, by name
    \* what happened, for the properties
    calls,              \* the positions process was invoked on, in order
    seen,               \* the statuses the fragments returned
    first_failed,       \* the first position that returned non-zero, or None
    outputs,            \* what the runner left in each fragment's temp file
    handled,            \* the lists _handle_changed_contents was called with
    \* the pure-function specification
    fn,                 \* the function it applies
    arg_text,           \* its text argument
    arg_items,          \* its list argument (items with changed contents)
    arg_item,           \* its item argument
    fn_done,            \* whether the function has been applied
    out_text,           \* the text it returned or wrote
    out_items,          \* the list argument after the call
    \* one fragment and its process() call
    frag,               \* the DialogScriptInternalItem
    frag_pc,            \* where process() is: start, written, processed, done
    frag_files,         \* the files of runner.temp_dir, by name
    runner_name,        \* the runner whose process_path is called
    known_builtins,     \* the runner's config data "known_builtins" for the item
    frag_status,        \* what runner.process_path returned, or None
    frag_returned,      \* what process() returned, or None
    frag_events,        \* the writes, process_path calls and reads, in order
    \* HoudiniPackageRunner.run
    discovered,         \* self.discoverer.items, each [write_back]
    given,              \* the write_back flags the items were discovered with
    list_items,         \* self._list_items
    runner_write_back,  \* self.write_back
    run_pc,             \* where run() is: start, loop, done or raised
    run_idx,            \* the loop's position in the items (0-based)
    run_result,         \* the status so far
    run_returned,       \* what run() returned, or None
    run_events,         \* the prints and process calls, in order
    \* BinaryDigitalAssetFile.process
    asset,              \* the file item: [write_back, contents_changed]
    operators,          \* how many operators the archive holds
    directory,          \* the DigitalAssetDirectory: [idx, result, contents_changed]
    asset_pc,           \* where process() is
    asset_returned,     \* what process() returned, or None
    asset_events        \* the expand, process and collapse steps, in order

item_vars == <<layout, ds_contents, disk, write_back, contents_changed, pc,
               files_to_process, idx, result, items_with_changed_contents,
               temp_files, calls, seen, first_failed, outputs, handled>>

pure_vars == <<fn, arg_text, arg_items, arg_item, fn_done, out_text, out_items>>

frag_vars == <<frag, frag_pc, frag_files, runner_name, known_builtins, frag_status,
              frag_returned, frag_events>>

run_vars == <<discovered, given, list_items, runner_write_back, run_pc, run_idx,
              run_result, run_returned, run_events>>

asset_vars == <<asset, operators, directory, asset_pc, asset_returned, asset_events>>

vars == <<item_vars, pure_vars, frag_vars, run_vars, asset_vars>>

-----------------------------------------------------------------------------
(* Characters. *)

BS == "\\"
DQ == "\""
CR == "\r"
LF == "\n"
TAB == "\t"
SP == " "

-----------------------------------------------------------------------------
(* Python's sequence primitives. *)

Min(a, b) == IF a <= b THEN a ELSE b

Max(a, b) == IF a >= b THEN a ELSE b

\* s[i] for 0 <= i < len(s).
At(s, i) == s[i + 1]

\* s[a:b] for a, b >= 0.
Slice(s, a, b) == SubSeq(s, a + 1, Min(b, Len(s)))

\* s[a:].
SliceFrom(s, a) == SubSeq(s, a + 1, Len(s))

\* c * n for a one-character string c.
RECURSIVE Repeat(_, _)
Repeat(c, n) == IF n <= 0 THEN <<>> ELSE <<c>> \o Repeat(c, n - 1)

\* The least element of a non-empty set of integers.
Least(S) == CHOOSE x \in S : \A y \in S : x <= y

\* The first location at or after i that holds one of chars, or len(s).
NextOf(s, i, chars) ==
    LET C == {p \in i..(Len(s) - 1) : At(s, p) \in chars}
    IN  IF C = {} THEN Len(s) ELSE Least(C)

\* s.endswith("\n").
EndsWithNewline(s) == Len(s) > 0 /\ s[Len(s)] = LF

\* s.replace(old, new) for a one-character old.
RECURSIVE StrReplace(_, _, _)
StrReplace(s, old, new) ==
    IF s = <<>> THEN <<>>
    ELSE (IF Head(s) = old THEN new ELSE <<Head(s)>>)
             \o StrReplace(Tail(s), old, new)

\* The characters str.splitlines() breaks a line at (those of the model's
\* alphabet); "\r\n" is one break.
LineBreaks == {LF, CR, "\f"}

\* s.splitlines(): lines without their terminators; no empty last line
\* after a final terminator.  cur is the line being read.
RECURSIVE SplitLinesFrom(_, _, _)
SplitLinesFrom(s, i, cur) ==
    IF i >= Len(s)
    THEN (IF cur = <<>> THEN <<>> ELSE <<cur>>)
    ELSE IF At(s, i) \in LineBreaks
         THEN LET step == IF At(s, i) = CR /\ i + 1 < Len(s) /\ At(s, i + 1) = LF
                          THEN 2 ELSE 1
              IN  <<cur>> \o SplitLinesFrom(s, i + step, <<>>)
         ELSE SplitLinesFrom(s, i + 1, Append(cur, At(s, i)))

SplitLines(s) == SplitLinesFrom(s, 0, <<>>)

-----------------------------------------------------------------------------
(* _escape_contents_for_single_line *)

\* The escaping without its last replace: a double-quote is left as it is.
EscapeNoQuote(contents) ==
    StrReplace(StrReplace(contents, CR, <<BS, "r">>), LF, <<BS, "n">>)

EscapeContentsForSingleLine(contents) ==
    StrReplace(StrReplace(StrReplace(contents, CR, <<BS, "r">>),
                          LF, <<BS, "n">>),
               DQ, <<BS, DQ>>)

-----------------------------------------------------------------------------
(* pyparsing's primitives, as the grammars of dialog_script.py use them.   *)
(* A parser takes the text and a location and returns the location after   *)
(* its match, or NoMatch.  Every token skips leading whitespace first.     *)

NoMatch == -1

WhiteSpace == {SP, TAB, LF, CR}

Lower == {"a", "b", "c", "d", "e", "f", "g", "h", "i", "j", "k", "l", "m",
          "n", "o", "p", "q", "r", "s", "t", "u", "v", "w", "x", "y", "z"}

Upper == {"A", "B", "C", "D", "E", "F", "G", "H", "I", "J", "K", "L", "M",
          "N", "O", "P", "Q", "R", "S", "T", "U", "V", "W", "X", "Y", "Z"}

Nums == {"0", "1", "2", "3", "4", "5", "6", "7", "8", "9"}

Alphas == Lower \cup Upper

\* Keyword.DEFAULT_KEYWORD_CHARS: alphanums + "_$".
IdentChars == Alphas \cup Nums \cup {"_", "$"}

HexNums == Nums \cup {"a", "b", "c", "d", "e", "f", "A", "B", "C", "D", "E", "F"}

RECURSIVE SkipWhitespace(_, _)
SkipWhitespace(s, loc) ==
    IF loc < Len(s) /\ At(s, loc) \in WhiteSpace
    THEN SkipWhitespace(s, loc + 1)
    ELSE loc

StartsWith(s, loc, lit) ==
    loc + Len(lit) <= Len(s) /\ Slice(s, loc, loc + Len(lit)) = lit

\* pyparsing.Literal(lit).
Literal(s, loc, lit) ==
    LET p == SkipWhitespace(s, loc)
    IN  IF StartsWith(s, p, lit) THEN p + Len(lit) ELSE NoMatch

\* pyparsing.Keyword(kw): the literal, not preceded and not followed by an
\* identifier character.
Keyword(s, loc, kw) ==
    LET p == SkipWhitespace(s, loc)
        e == p + Len(kw)
    IN  IF /\ StartsWith(s, p, kw)
           /\ (e >= Len(s) \/ At(s, e) \notin IdentChars)
           /\ (p = 0 \/ At(s, p - 1) \notin IdentChars)
        THEN e
        ELSE NoMatch

\* pyparsing.Word(chars): the longest non-empty run of chars.
RECURSIVE RunOf(_, _, _)
RunOf(s, i, chars) ==
    IF i < Len(s) /\ At(s, i) \in chars THEN RunOf(s, i + 1, chars) ELSE i

Word(s, loc, chars) ==
    LET p == SkipWhitespace(s, loc)
        e == RunOf(s, p, chars)
    IN  IF e > p THEN e ELSE NoMatch

\* The body of pyparsing.QuotedString('"', escChar, multiline) from the
\* character after the opening quote: the regular expression
\* "(?:[^"\\]|(?:\\.))*" (multiline, DOTALL), "(?:[^"\n\r\\]|(?:\\.))*"
\* (escChar only) or "(?:[^"\n\r])*" (neither).  Returns the location after
\* the closing quote.
RECURSIVE QuotedBody(_, _, _, _)
QuotedBody(s, i, esc, multiline) ==
    IF i >= Len(s) THEN NoMatch
    ELSE LET c == At(s, i)
         IN  IF c = DQ THEN i + 1
             ELSE IF esc /\ c = BS
             THEN (IF i + 1 < Len(s) /\ (multiline \/ At(s, i + 1) # LF)
                   THEN QuotedBody(s, i + 2, esc, multiline)
                   ELSE NoMatch)
             ELSE IF ~multiline /\ c \in {LF, CR} THEN NoMatch
             ELSE QuotedBody(s, i + 1, esc, multiline)

\* QuotedString at loc: [start, end) spans the two quote characters.
QuotedString(s, loc, esc, multiline) ==
    LET p == SkipWhitespace(s, loc)
        e == IF p < Len(s) /\ At(s, p) = DQ
             THEN QuotedBody(s, p + 1, esc, multiline)
             ELSE NoMatch
    IN  [start |-> p, end |-> e]

\* QuotedString's unquoting with an escape character: \n, \r, \t and \f
\* become the whitespace character, any other escaped character loses its
\* backslash.  (Read left to right; pyparsing releases differ only on an
\* escaped backslash followed by n, r, t or f, and on a backslash before a
\* raw line feed.)
RECURSIVE Unquote(_)
Unquote(raw) ==
    IF raw = <<>> THEN <<>>
    ELSE IF Head(raw) = BS /\ Len(raw) >= 2
    THEN LET c == raw[2]
             u == CASE c = "n" -> LF
                    [] c = "r" -> CR
                    [] c = "t" -> TAB
                    [] c = "f" -> "\f"
                    [] OTHER -> c
         IN  <<u>> \o Unquote(SubSeq(raw, 3, Len(raw)))
    ELSE <<Head(raw)>> \o Unquote(Tail(raw))

\* pyparsing.quotedString for a double-quoted string (the ignoreExpr of
\* nestedExpr), from the character after the opening quote:
\* "(?:[^"\n\r\\]|(?:"")|(?:\\(?:[^x]|x[0-9a-fA-F]+)))*".  A doubled quote
\* is tried before the closing quote, and given up when no closing quote
\* follows it.
RECURSIVE DblQuotedBody(_, _)
DblQuotedBody(s, i) ==
    IF i >= Len(s) THEN NoMatch
    ELSE LET c == At(s, i)
         IN  IF c = DQ
             THEN (IF i + 1 < Len(s) /\ At(s, i + 1) = DQ
                   THEN LET r == DblQuotedBody(s, i + 2)
                        IN  IF r # NoMatch THEN r ELSE i + 1
                   ELSE i + 1)
             ELSE IF c = BS
             THEN (IF i + 1 >= Len(s) THEN NoMatch
                   ELSE IF At(s, i + 1) # "x" THEN DblQuotedBody(s, i + 2)
                   ELSE LET h == RunOf(s, i + 2, HexNums)
                        IN  IF h > i + 2 THEN DblQuotedBody(s, h) ELSE NoMatch)
             ELSE IF c \in {LF, CR} THEN NoMatch
             ELSE DblQuotedBody(s, i + 1)

\* pyparsing.nestedExpr("{", "}") from the character after an opening
\* brace, depth braces being open: quoted strings are skipped, a quote that
\* starts no quoted string is content.  (The model's texts hold no
\* apostrophe, so the single-quoted half of quotedString never applies.)
RECURSIVE NestedBody(_, _, _)
NestedBody(s, from, depth) ==
    LET i == NextOf(s, from, {DQ, "{", "}"})
    IN  IF i >= Len(s) THEN NoMatch
        ELSE LET c == At(s, i)
                 q == IF c = DQ THEN DblQuotedBody(s, i + 1) ELSE NoMatch
             IN  IF q # NoMatch THEN NestedBody(s, q, depth)
                 ELSE IF c = "{" THEN NestedBody(s, i + 1, depth + 1)
                 ELSE IF c = "}"
                 THEN (IF depth = 1 THEN i + 1 ELSE NestedBody(s, i + 1, depth - 1))
                 ELSE NestedBody(s, i + 1, depth)

NestedExpr(s, loc) ==
    LET p == SkipWhitespace(s, loc)
    IN  IF p < Len(s) /\ At(s, p) = "{" THEN NestedBody(s, p + 1, 1) ELSE NoMatch

-----------------------------------------------------------------------------
(* The grammars (dialog_script.py, _DS_NAME_EXPR_GRAMMAR .. _DS_PARM_GRAMMAR).*)
(* A parse state is [ok, end, toks]: whether the elements so far matched,   *)
(* the location after them, and their tokens.  A sequence a + b + c of      *)
(* pyparsing elements is the nesting ThenC(ThenB(ThenA(Start(loc)))).       *)

KwName == <<"n", "a", "m", "e">>
KwDefault == <<"d", "e", "f", "a", "u", "l", "t">>
KwParmtag == <<"p", "a", "r", "m", "t", "a", "g">>
KwMenu == <<"m", "e", "n", "u">>
KwParm == <<"p", "a", "r", "m">>
KwLanguage == <<"l", "a", "n", "g", "u", "a", "g", "e">>
KwPython == <<"p", "y", "t", "h", "o", "n">>
LitScriptCallbackLanguage == <<"\"", "s", "c", "r", "i", "p", "t", "_", "c", "a", "l", "l", "b", "a", "c", "k", "_", "l", "a", "n", "g", "u", "a", "g", "e", "\"">>
LitScriptCallback == <<"\"", "s", "c", "r", "i", "p", "t", "_", "c", "a", "l", "l", "b", "a", "c", "k", "\"">>

Fail == [ok |-> FALSE, end |-> NoMatch, toks |-> <<>>]

Start(loc) == [ok |-> TRUE, end |-> loc, toks |-> <<>>]

\* The state st after an element that ends at e (or did not match).
Advance(st, e) == IF e = NoMatch THEN Fail ELSE [st EXCEPT !.end = e]

\* ... + Literal(lit).suppress()
ThenLiteral(s, st, lit) ==
    IF st.ok THEN Advance(st, Literal(s, st.end, lit)) ELSE Fail

\* ... + Keyword(kw).suppress()
ThenKeyword(s, st, kw) ==
    IF st.ok THEN Advance(st, Keyword(s, st.end, kw)) ELSE Fail

\* The token of a QuotedString match q: the text between the quotes,
\* unquoted when there is an escape character; under locatedExpr the token
\* (start, text, end), start at the opening quote and end after the closing
\* one.
QuotedToken(s, q, esc, located) ==
    IF located
    THEN [start |-> q.start,
          text |-> Unquote(Slice(s, q.start + 1, q.end - 1)),
          end |-> q.end]
    ELSE IF esc THEN Unquote(Slice(s, q.start + 1, q.end - 1))
    ELSE Slice(s, q.start + 1, q.end - 1)

\* The state st after a QuotedString match q.
AfterQuoted(s, st, q, esc, located) ==
    IF q.end = NoMatch THEN Fail
    ELSE [ok |-> TRUE, end |-> q.end,
          toks |-> Append(st.toks, QuotedToken(s, q, esc, located))]

\* ... + QuotedString('"', escChar, multiline), under locatedExpr or not.
ThenQuotedString(s, st, esc, multiline, located) ==
    IF st.ok
    THEN AfterQuoted(s, st, QuotedString(s, st.end, esc, multiline), esc, located)
    ELSE Fail

\* The state st after a Word match that ends at e: the token is the word.
AfterWord(s, st, e) ==
    IF e = NoMatch THEN Fail
    ELSE [ok |-> TRUE, end |-> e,
          toks |-> Append(st.toks, Slice(s, SkipWhitespace(s, st.end), e))]

\* ... + Word(chars)
ThenWord(s, st, chars) ==
    IF st.ok THEN AfterWord(s, st, Word(s, st.end, chars)) ELSE Fail

\* a | b (MatchFirst).
MatchFirst(a, b) == IF a.ok THEN a ELSE b

\* expr.suppress()
Suppress(st) == IF st.ok THEN [st EXCEPT !.toks = <<>>] ELSE Fail

\* _DS_NAME_EXPR_GRAMMAR: Keyword("name") + QuotedString('"').
DsNameExpr(s, loc) ==
    ThenQuotedString(s, ThenKeyword(s, Start(loc), KwName), FALSE, FALSE, FALSE)

\* parmtag { "<tag>" : the common head of the two parmtag grammars.
ParmtagHead(s, loc, tag) ==
    ThenLiteral(s, ThenLiteral(s, ThenKeyword(s, Start(loc), KwParmtag), <<"{">>), tag)

\* _DS_CB_SCRIPT_LANG_GRAMMAR.
DsCbScriptLang(s, loc) ==
    ThenLiteral(s,
        ThenQuotedString(s, ParmtagHead(s, loc, LitScriptCallbackLanguage),
                         FALSE, FALSE, FALSE),
        <<"}">>)

\* _DS_CB_SCRIPT_GRAMMAR.
DsCbScript(s, loc) ==
    ThenLiteral(s,
        ThenQuotedString(s, ParmtagHead(s, loc, LitScriptCallback),
                         TRUE, TRUE, TRUE),
        <<"}">>)

\* pyparsing.Group over (located, lang): the token ((start, code, end), lang).
Group(st) ==
    IF st.ok
    THEN [st EXCEPT !.toks = <<[located |-> st.toks[1], expr_lang |-> st.toks[2]]>>]
    ELSE Fail

\* _DS_DEF_EXPR_TYPED: [ "<code>" <lang> ].
DsDefExprTyped(s, loc) ==
    Group(ThenLiteral(s,
              ThenWord(s,
                  ThenQuotedString(s, ThenLiteral(s, Start(loc), <<"[">>),
                                   TRUE, TRUE, TRUE),
                  Alphas \cup {"-"}),
              <<"]">>))

\* _DS_DEF_EXPR_LIT: a quoted string or a number, suppressed.
DsDefExprLit(s, loc) ==
    Suppress(MatchFirst(ThenQuotedString(s, Start(loc), TRUE, TRUE, FALSE),
                        ThenWord(s, Start(loc), Nums)))

\* OneOrMore(expr), st being the state after n matches and m the next
\* attempt: DsDefExprMore for _DS_DEF_EXPR_TYPED | _DS_DEF_EXPR_LIT and
\* DsMenuPyMore for _DS_MENU_PY.
RECURSIVE DsDefExprMore(_, _, _)
RECURSIVE DsMenuPyMore(_, _, _)

OneOrMore(s, st, n, m, menu) ==
    IF m.ok
    THEN (IF menu
          THEN DsMenuPyMore(s, [ok |-> TRUE, end |-> m.end, toks |-> st.toks \o m.toks], n + 1)
          ELSE DsDefExprMore(s, [ok |-> TRUE, end |-> m.end, toks |-> st.toks \o m.toks], n + 1))
    ELSE IF n = 0 THEN Fail
    ELSE st

DsDefExprMore(s, st, n) ==
    IF st.ok
    THEN OneOrMore(s, st, n,
                   MatchFirst(DsDefExprTyped(s, st.end), DsDefExprLit(s, st.end)),
                   FALSE)
    ELSE Fail

\* _DS_DEF_EXPR_GRAMMAR.
DsDefExpr(s, loc) ==
    ThenLiteral(s,
        DsDefExprMore(s, ThenLiteral(s, ThenKeyword(s, Start(loc), KwDefault), <<"{">>), 0),
        <<"}">>)

\* locatedExpr(expr) at loc: the token (start, token of expr, end), start
\* after the whitespace at loc.
LocatedExpr(s, loc, st) ==
    IF st.ok
    THEN [st EXCEPT !.toks = <<[start |-> SkipWhitespace(s, loc),
                                text |-> st.toks[1],
                                end |-> st.end]>>]
    ELSE Fail

\* _DS_MENU_PY: locatedExpr([ "<line>" ]), start at the bracket and end
\* after the closing bracket.
DsMenuPy(s, loc) ==
    LocatedExpr(s, loc,
        ThenLiteral(s,
            ThenQuotedString(s, ThenLiteral(s, Start(loc), <<"[">>),
                             TRUE, FALSE, FALSE),
            <<"]">>))

DsMenuPyMore(s, st, n) ==
    IF st.ok THEN OneOrMore(s, st, n, DsMenuPy(s, st.end), TRUE) ELSE Fail

\* _DS_MENU_GRAMMAR.
DsMenu(s, loc) ==
    ThenLiteral(s,
        ThenLiteral(s,
            ThenLiteral(s,
                DsMenuPyMore(s, ThenLiteral(s, ThenKeyword(s, Start(loc), KwMenu), <<"{">>), 0),
                KwLanguage),
            KwPython),
        <<"}">>)

\* ... + nestedExpr("{", "}")
ThenNestedExpr(s, st) ==
    IF st.ok THEN Advance(st, NestedExpr(s, st.end)) ELSE Fail

\* originalTextFor(expr) at loc: the matched text is the token.
OriginalTextFor(s, loc, st) ==
    IF st.ok THEN [st EXCEPT !.toks = <<Slice(s, loc, st.end)>>] ELSE Fail

\* _DS_PARM_GRAMMAR: originalTextFor(Keyword("parm") + nestedExpr("{", "}")).
DsParm(s, loc) ==
    OriginalTextFor(s, loc, ThenNestedExpr(s, ThenKeyword(s, Start(loc), KwParm)))

\* The first match at or after loc among attempts, the grammar's parse
\* state at every location of s: an attempt is made after the whitespace at
\* loc, and a failed attempt resumes one character later, so the match
\* starts at the first location that is not whitespace (or is the end of
\* the text) where the grammar matches.  Len(s) + 1 when there is none.
NextMatch(attempts, s, loc) ==
    Least({p \in loc..Len(s) :
              /\ p < Len(s) => At(s, p) \notin WhiteSpace
              /\ attempts[p].ok}
          \cup {Len(s) + 1})

\* ParserElement.scanString from loc: the matches [start, end, toks] in
\* text order, not overlapping.
RECURSIVE ScanString(_, _, _)

ScanFrom(attempts, s, preloc) ==
    IF preloc > Len(s) THEN <<>>
    ELSE <<[start |-> preloc, end |-> attempts[preloc].end,
            toks |-> attempts[preloc].toks]>>
             \o ScanString(attempts, s, attempts[preloc].end)

ScanString(attempts, s, loc) == ScanFrom(attempts, s, NextMatch(attempts, s, loc))

\* The tokens of every match.
TokensOf(ms) == [i \in 1..Len(ms) |-> ms[i].toks]

\* ParserElement.searchString: the tokens of every match.
SearchString(attempts, s) == TokensOf(ScanString(attempts, s, 0))

-----------------------------------------------------------------------------
(* Fragment items (BaseItem, DialogScriptInternalItem and its subclasses). *)
(* An item is a record of the object's fields.  The parameter text         *)
(* item.parm is kept as its bounds in the container text,                  *)
(* [parm_start, parm_end).  A constructor returns [raised, items]: raised  *)
(* when the parameter has no name entry (the IndexError of                 *)
(* searchString(parm)[0][0]), otherwise the one item built.                *)

Hou == <<"h", "o", "u">>
Kwargs == <<"k", "w", "a", "r", "g", "s">>

Raised == [raised |-> TRUE, items |-> <<>>]

NoItems == [raised |-> FALSE, items |-> <<>>]

\* The offsets with the inclusive flag ignored: the quotes are always part
\* of the span.
GetDsFileOffsetInclusive(parm_start, span, inclusive) ==
    <<parm_start + span[1], parm_start + span[2]>>

\* The offsets with the inclusive flag ignored the other way: both ends are
\* always moved inwards.
GetDsFileOffsetExclusive(parm_start, span, inclusive) ==
    <<parm_start + span[1] + 1, parm_start + span[2] - 1>>

\* _get_ds_file_offset
GetDsFileOffset(parm_start, span, inclusive) ==
    LET extra_offset == IF inclusive THEN 0 ELSE 1
    IN  <<parm_start + span[1] + extra_offset, parm_start + span[2] - extra_offset>>

\* BaseItem.__init__
BaseItem(wb) ==
    [contents_changed |-> FALSE,
     ignored_builtins |-> <<>>,
     is_single_line |-> FALSE,
     is_test_item |-> FALSE,
     write_back |-> wb]

\* DialogScriptInternalItem.__init__; kind names the subclass.
DialogScriptInternalItem(kind, parm, parm_start, code, start_offset, end_offset, display_name, wb) ==
    LET names == SearchString([p \in 0..Len(parm) |-> DsNameExpr(parm, p)], parm)
        base == BaseItem(wb)
    IN  IF Len(names) = 0 THEN Raised
        ELSE [raised |-> FALSE,
              items |-> <<[kind |-> kind,
                           contents_changed |-> base.contents_changed,
                           ignored_builtins |-> Append(base.ignored_builtins, Hou),
                           is_single_line |-> base.is_single_line,
                           is_test_item |-> base.is_test_item,
                           write_back |-> base.write_back,
                           code |-> code,
                           start_offset |-> start_offset,
                           end_offset |-> end_offset,
                           parm_start |-> parm_start,
                           parm_end |-> parm_start + Len(parm),
                           name |-> names[1][1],
                           display_hint |-> <<>>,
                           base_display_name |-> display_name \o <<"_">> \o names[1][1],
                           post_processed_code |-> code,
                           indent |-> 0,
                           uses_tabs |-> FALSE]>>]

\* The rest of a subclass constructor, after super().__init__.
Subclass(made, hint, single_line, builtins) ==
    IF made.raised THEN made
    ELSE [raised |-> FALSE,
          items |-> <<[made.items[1] EXCEPT
                          !.display_hint = hint,
                          !.is_single_line = single_line,
                          !.ignored_builtins = @ \o builtins]>>]

\* DialogScriptCallbackItem.__init__
DialogScriptCallbackItem(parm, code, parm_start, span, display_name) ==
    LET off == GetDsFileOffset(parm_start, span, FALSE)
    IN  Subclass(DialogScriptInternalItem("callback", parm, parm_start, code,
                                          off[1], off[2], display_name, FALSE),
                 <<"c", "a", "l", "l", "b", "a", "c", "k">>, TRUE, <<Kwargs>>)

\* DialogScriptDefaultExpressionItem.__init__
DialogScriptDefaultExpressionItem(parm, code, parm_start, span, display_name) ==
    LET off == GetDsFileOffset(parm_start, span, FALSE)
    IN  Subclass(DialogScriptInternalItem("default", parm, parm_start, code,
                                          off[1], off[2], display_name, FALSE),
                 <<"d", "e", "f", "a", "u", "l", "t">>, TRUE, <<>>)

\* The end of DialogScriptMenuScriptItem.__init__: self.indent and
\* self.uses_tabs.
MenuFields(made, menu_script_data) ==
    IF made.raised THEN made
    ELSE [raised |-> FALSE,
          items |-> <<[made.items[1] EXCEPT
                          !.indent = menu_script_data.indent,
                          !.uses_tabs = menu_script_data.uses_tabs]>>]

\* DialogScriptMenuScriptItem.__init__; menu_script_data is a
\* PythonMenuScriptResult [menu_script, span, indent, uses_tabs].
DialogScriptMenuScriptItem(parm, parm_start, display_name, menu_script_data) ==
    LET off == GetDsFileOffset(parm_start, menu_script_data.span, TRUE)
    IN  MenuFields(Subclass(DialogScriptInternalItem("menu_script", parm, parm_start,
                                                     menu_script_data.menu_script,
                                                     off[1], off[2], display_name, FALSE),
                            <<"m", "e", "n", "u", "_", "s", "c", "r", "i", "p", "t">>, FALSE, <<Kwargs>>),
                   menu_script_data)

\* DialogScriptInternalItem.display_name
DisplayName(item) ==
    IF item.display_hint # <<>>
    THEN item.base_display_name \o <<"_", "_">> \o item.display_hint
    ELSE item.base_display_name

-----------------------------------------------------------------------------
(* Extraction from one parameter block. *)

\* _discard_newlines
RECURSIVE DiscardNewlines(_, _)
DiscardNewlines(parm, start) ==
    IF start < Len(parm) /\ At(parm, start) \in {CR, LF}
    THEN DiscardNewlines(parm, start + 1)
    ELSE start

\* _get_callback_language: <<language>>, or <<>> for None.
FirstLanguage(ms) == IF Len(ms) > 0 THEN <<ms[1][1]>> ELSE <<>>

GetCallbackLanguage(parm) ==
    FirstLanguage(SearchString([p \in 0..Len(parm) |-> DsCbScriptLang(parm, p)], parm))

\* _get_script_callback: <<[text, span]>>, or <<>> for None.
FirstScript(ms) ==
    IF Len(ms) > 0
    THEN <<[text |-> ms[1][1].text, span |-> <<ms[1][1].start, ms[1][1].end>>]>>
    ELSE <<>>

GetScriptCallback(parm) ==
    FirstScript(SearchString([p \in 0..Len(parm) |-> DsCbScript(parm, p)], parm))

\* The python expressions among the tokens of one match.
RECURSIVE PythonExpressionsOf(_)
PythonExpressionsOf(toks) ==
    IF toks = <<>> THEN <<>>
    ELSE (IF Head(toks).expr_lang = KwPython
          THEN <<[text |-> Head(toks).located.text,
                  span |-> <<Head(toks).located.start, Head(toks).located.end>>]>>
          ELSE <<>>)
         \o PythonExpressionsOf(Tail(toks))

RECURSIVE PythonExpressionsOfAll(_)
PythonExpressionsOfAll(ms) ==
    IF ms = <<>> THEN <<>>
    ELSE PythonExpressionsOf(Head(ms)) \o PythonExpressionsOfAll(Tail(ms))

\* _get_default_python_expressions returning after its first expression.
GetFirstDefaultPythonExpression(parm) ==
    LET all == PythonExpressionsOfAll(
                   SearchString([p \in 0..Len(parm) |-> DsDefExpr(parm, p)], parm))
    IN  IF all = <<>> THEN <<>> ELSE <<all[1]>>

\* _get_default_python_expressions
GetDefaultPythonExpressions(parm) ==
    PythonExpressionsOfAll(
        SearchString([p \in 0..Len(parm) |-> DsDefExpr(parm, p)], parm))

\* "\n".join(lines)
RECURSIVE JoinLines(_)
JoinLines(lines) ==
    IF lines = <<>> THEN <<>>
    ELSE IF Len(lines) = 1 THEN lines[1].text
    ELSE lines[1].text \o <<LF>> \o JoinLines(Tail(lines))

\* The loop of _get_python_menu_script over range(start - 1, 0, -1), at i.
RECURSIVE IndentLoop(_, _, _, _)
IndentLoop(parm, i, indent, uses_tabs) ==
    IF i <= 0 THEN [indent |-> indent, uses_tabs |-> uses_tabs]
    ELSE IF At(parm, i) = SP THEN IndentLoop(parm, i - 1, indent + 1, uses_tabs)
    ELSE IF At(parm, i) = TAB THEN IndentLoop(parm, i - 1, indent + 1, TRUE)
    ELSE [indent |-> indent, uses_tabs |-> uses_tabs]

\* PythonMenuScriptResult(menu_script, (start, end), indent, uses_tabs),
\* ind being the outcome of the indentation loop.
PythonMenuScriptResult(menu_script, start, end, ind) ==
    [menu_script |-> menu_script,
     span |-> <<start, end>>,
     indent |-> ind.indent,
     uses_tabs |-> ind.uses_tabs]

\* _get_python_menu_script after the search: <<PythonMenuScriptResult>>,
\* or <<>> for None.
MenuScriptOf(parm, ms) ==
    IF Len(ms) = 0 THEN <<>>
    ELSE <<PythonMenuScriptResult(
               JoinLines(ms[1]),
               ms[1][1].start,
               DiscardNewlines(parm, ms[1][Len(ms[1])].end),
               IndentLoop(parm, ms[1][1].start - 1, 0, FALSE))>>

\* _get_python_menu_script
GetPythonMenuScript(parm) ==
    MenuScriptOf(parm, SearchString([p \in 0..Len(parm) |-> DsMenu(parm, p)], parm))

\* _get_callback_items without its test of the language: a script of any
\* language makes an item.
CallbackItemsAnyLanguage(parm, parm_start, name, callback_language, script) ==
    IF script # <<>>
    THEN DialogScriptCallbackItem(parm, script[1].text, parm_start,
                                  script[1].span, name)
    ELSE NoItems

\* _get_callback_items
CallbackItemsOf(parm, parm_start, name, callback_language, script) ==
    IF callback_language = <<KwPython>> /\ script # <<>>
    THEN DialogScriptCallbackItem(parm, script[1].text, parm_start,
                                  script[1].span, name)
    ELSE NoItems

GetCallbackItems(parm, parm_start, name) ==
    CallbackItemsOf(parm, parm_start, name,
                    GetCallbackLanguage(parm), GetScriptCallback(parm))

\* list.extend over constructor results: the first raise ends the call.
Extend(a, b) ==
    IF a.raised THEN a
    ELSE IF b.raised THEN Raised
    ELSE [raised |-> FALSE, items |-> a.items \o b.items]

\* The loop of _get_expression_items.
RECURSIVE ExpressionItemsOf(_, _, _, _)
ExpressionItemsOf(exprs, parm, parm_start, name) ==
    IF exprs = <<>> THEN NoItems
    ELSE Extend(DialogScriptDefaultExpressionItem(parm, Head(exprs).text, parm_start,
                                                  Head(exprs).span, name),
                ExpressionItemsOf(Tail(exprs), parm, parm_start, name))

\* _get_expression_items
GetExpressionItems(parm, parm_start, name) ==
    ExpressionItemsOf(GetDefaultPythonExpressions(parm), parm, parm_start, name)

\* _get_menu_items
MenuItemsOf(parm, parm_start, name, menu_script) ==
    IF menu_script # <<>>
    THEN DialogScriptMenuScriptItem(parm, parm_start, name, menu_script[1])
    ELSE NoItems

GetMenuItems(parm, parm_start, name) ==
    MenuItemsOf(parm, parm_start, name, GetPythonMenuScript(parm))

\* The body of the loop with the menu script gathered first.
ParmItemsMenuFirst(parm, parm_start, name) ==
    Extend(Extend(GetMenuItems(parm, parm_start, name),
                  GetCallbackItems(parm, parm_start, name)),
           GetExpressionItems(parm, parm_start, name))

\* The body of the loop of _gather_items for one parameter block.
ParmItems(parm, parm_start, name) ==
    Extend(Extend(GetCallbackItems(parm, parm_start, name),
                  GetExpressionItems(parm, parm_start, name)),
           GetMenuItems(parm, parm_start, name))

RECURSIVE GatherFrom(_, _)
GatherFrom(parms, name) ==
    IF parms = <<>> THEN NoItems
    ELSE Extend(ParmItems(Head(parms).toks[1], Head(parms).start, name),
                GatherFrom(Tail(parms), name))

\* _gather_items without its loop over the items: each item keeps the
\* write_back it was constructed with.
AsConstructed(g, wb) == g

\* DialogScriptItem._gather_items
\* "if self.write_back: script_item.write_back = True", over the items
\* gathered.
WithWriteBack(g, wb) ==
    IF g.raised THEN g
    ELSE [raised |-> FALSE,
          items |-> [i \in 1..Len(g.items) |->
                        IF wb
                        THEN [g.items[i] EXCEPT !.write_back = TRUE]
                        ELSE g.items[i]]]

\* DialogScriptItem._gather_items
GatherItems(contents, name, wb) ==
    WithWriteBack(
        GatherFrom(ScanString([p \in 0..Len(contents) |-> DsParm(contents, p)],
                              contents, 0),
                   name),
        wb)

-----------------------------------------------------------------------------
(* Processing one fragment (DialogScriptInternalItem.process). *)

\* _write_contents without its test: the code is written as it is.
WriteContentsAsIs(item) == item.code

\* DialogScriptInternalItem._write_contents: the text written to the temp file.
WriteContents(item) ==
    IF EndsWithNewline(item.code) THEN item.code ELSE item.code \o <<LF>>

\* handle.read() of a file opened in text mode: "\r\n" and "\r" are read
\* as "\n" (universal newlines).
RECURSIVE ReadText(_)
ReadText(file) ==
    IF file = <<>> THEN <<>>
    ELSE IF Head(file) = CR
    THEN <<LF>> \o ReadText(IF Len(file) >= 2 /\ file[2] = LF
                            THEN SubSeq(file, 3, Len(file))
                            ELSE Tail(file))
    ELSE <<Head(file)>> \o ReadText(Tail(file))

\* contents[:-1] if contents.endswith("\n")
StripFinalNewline(contents) ==
    IF EndsWithNewline(contents) THEN SubSeq(contents, 1, Len(contents) - 1)
    ELSE contents

\* DialogScriptInternalItem._load_contents of a temp file holding temp.
LoadContents(item, temp) ==
    IF item.is_single_line
    THEN EscapeContentsForSingleLine(StripFinalNewline(ReadText(temp)))
    ELSE StripFinalNewline(ReadText(temp))

\* The loop with every line indented, the first included.
RECURSIVE WrapLinesAll(_, _, _)
WrapLinesAll(lines, i, indent) ==
    IF i >= Len(lines) THEN <<>>
    ELSE indent \o <<"[", SP, DQ>> \o At(lines, i) \o <<DQ, SP, "]", LF>>
             \o WrapLinesAll(lines, i + 1, indent)

\* The loop of DialogScriptMenuScriptItem._post_process_contents from line i.
RECURSIVE WrapLines(_, _, _)
WrapLines(lines, i, indent) ==
    IF i >= Len(lines) THEN <<>>
    ELSE (IF i = 0 THEN <<>> ELSE indent)
             \o <<"[", SP, DQ>> \o At(lines, i) \o <<DQ, SP, "]", LF>>
             \o WrapLines(lines, i + 1, indent)

\* DialogScriptMenuScriptItem._post_process_contents
MenuPostProcessContents(item, contents) ==
    LET lines == SplitLines(contents)
        indent_char == IF item.uses_tabs THEN TAB ELSE SP
        indent == Repeat(indent_char, item.indent)
    IN  WrapLines(lines, 0, indent)

\* _post_process_contents, by class.
PostProcessContents(item, contents) ==
    IF item.kind = "menu_script" THEN MenuPostProcessContents(item, contents)
    ELSE contents

\* runner.temp_dir / f"{self.display_name}.py", as the file's name.
TempPath(item) == DisplayName(item) \o <<".", "p", "y">>

\* process() without its test of write_back: the file is always reloaded.
ProcessedItemAlways(item, temp) ==
    LET contents == LoadContents(item, temp)
    IN  IF item.code # contents
        THEN [item EXCEPT !.contents_changed = TRUE,
                          !.post_processed_code = PostProcessContents(item, contents)]
        ELSE item

\* The item after DialogScriptInternalItem.process, the runner having left
\* temp in the temp file.
ProcessedItem(item, temp) ==
    IF item.write_back
    THEN LET contents == LoadContents(item, temp)
         IN  IF item.code # contents
             THEN [item EXCEPT !.contents_changed = TRUE,
                               !.post_processed_code = PostProcessContents(item, contents)]
             ELSE item
    ELSE item

-----------------------------------------------------------------------------
(* Reinsertion (DialogScriptItem._handle_changed_contents). *)

\* list.sort(key=attrgetter("start_offset")): a stable sort; x goes after
\* the items whose key is not greater.
RECURSIVE InsertByStart(_, _)
InsertByStart(sorted, x) ==
    IF sorted = <<>> THEN <<x>>
    ELSE IF x.start_offset < Head(sorted).start_offset THEN <<x>> \o sorted
    ELSE <<Head(sorted)>> \o InsertByStart(Tail(sorted), x)

RECURSIVE SortByStartOffset(_)
SortByStartOffset(items) ==
    IF items = <<>> THEN <<>>
    ELSE InsertByStart(SortByStartOffset(SubSeq(items, 1, Len(items) - 1)),
                       items[Len(items)])

\* The loop over the sorted items, from script_offset: the joined parts.
RECURSIVE SpliceParts(_, _, _)
SpliceParts(contents, items, script_offset) ==
    IF items = <<>> THEN SliceFrom(contents, script_offset)
    ELSE Slice(contents, script_offset, Head(items).start_offset)
             \o Head(items).post_processed_code
             \o SpliceParts(contents, Tail(items), Head(items).end_offset)

\* _handle_changed_contents without its sort: the items are walked in the
\* order they were supplied in.
HandleChangedContentsUnsorted(contents, items_changed) ==
    [items |-> items_changed, written |-> SpliceParts(contents, items_changed, 0)]

\* _handle_changed_contents: the list as the call leaves it, and the text
\* it writes to the container path.
HandleChangedContents(contents, items_changed) ==
    LET sorted == SortByStartOffset(items_changed)
    IN  [items |-> sorted, written |-> SpliceParts(contents, sorted, 0)]

-----------------------------------------------------------------------------
(* The containers the model processes.  A container is described by its    *)
(* parameter blocks and written out as DialogScript text, the way Houdini  *)
(* writes it: name, default, menu and parmtag entries, in that order.  A   *)
(* block is [name, ind, lang, cb, defaults, menu]: the parameter name (or  *)
(* <<>> for none), the indentation unit, the callback language (or <<>>),  *)
(* the callback script as written between the quotes (in a 1-tuple, or     *)
(* <<>>), the default entries [raw, lang] and the menu lines.              *)

\* How many parameter blocks a container holds at most.
MaxParms == 2

\* How many fragments a container holds at most.
MaxFragments == 3

PCallback ==
    [name |-> <<"c", "b">>, ind |-> <<SP, SP>>, lang |-> KwPython,
     cb |-> <<<<"r", "e", "t", "u", "r", "n", " ", "1">>>>, defaults |-> <<>>, menu |-> <<>>]

PHscript ==
    [name |-> <<"h", "s">>, ind |-> <<SP, SP>>, lang |-> <<"h", "s", "c", "r", "i", "p", "t">>,
     cb |-> <<<<"o", "p", "p", "a", "r", "m", " ", "x">>>>, defaults |-> <<>>, menu |-> <<>>]

PDefault ==
    [name |-> <<"d", "f">>, ind |-> <<TAB>>, lang |-> <<>>,
     cb |-> <<>>,
     defaults |-> <<[raw |-> <<"c", "h", "(", "\\", "\"", "x", "\\", "\"", ")">>, lang |-> KwPython]>>,
     menu |-> <<>>]

PMenu ==
    [name |-> <<"m", "n">>, ind |-> <<TAB>>, lang |-> KwPython,
     cb |-> <<<<"h", "(", ")">>>>, defaults |-> <<>>,
     menu |-> <<<<"i", "m", "p", "o", "r", "t", " ", "o", "s">>, <<"r", "e", "t", "u", "r", "n", " ", "[", "1", "]">>>>]

PAll ==
    [name |-> <<"a", "l">>, ind |-> <<SP, SP>>, lang |-> KwPython,
     cb |-> <<<<"f", "(", ")">>>>,
     defaults |-> <<[raw |-> <<"0">>, lang |-> <<>>],
                    [raw |-> <<"$", "F">>, lang |-> <<"h", "s", "c", "r", "i", "p", "t", "-", "e", "x", "p", "r">>],
                    [raw |-> <<"g", "(", ")">>, lang |-> KwPython]>>,
     menu |-> <<<<"r", "e", "t", "u", "r", "n", " ", "[", "]">>>>]

PNoName ==
    [name |-> <<>>, ind |-> <<SP, SP>>, lang |-> KwPython,
     cb |-> <<<<"r", "e", "t", "u", "r", "n", " ", "2">>>>, defaults |-> <<>>, menu |-> <<>>]

Templates == {PCallback, PHscript, PDefault, PMenu, PAll, PNoName}

Quoted(t) == <<DQ>> \o t \o <<DQ>>

\* In place of a default's language tag: a number written without quotes.
Unquoted == <<"#">>

RECURSIVE DefaultEntries(_)
DefaultEntries(ds) ==
    IF ds = <<>> THEN <<>>
    ELSE (IF Head(ds).lang = <<>> THEN Quoted(Head(ds).raw) \o <<SP>>
          ELSE IF Head(ds).lang = Unquoted THEN Head(ds).raw \o <<SP>>
          ELSE <<"[", SP>> \o Quoted(Head(ds).raw) \o <<SP>> \o Head(ds).lang
                   \o <<SP, "]", SP>>)
         \o DefaultEntries(Tail(ds))

RECURSIVE MenuLines(_, _)
MenuLines(lines, ind) ==
    IF lines = <<>> THEN <<>>
    ELSE ind \o <<"[", SP>> \o Quoted(Head(lines)) \o <<SP, "]", LF>>
             \o MenuLines(Tail(lines), ind)

\* The text of a block, from "parm" to its closing brace.
BlockText(b) ==
    LET i1 == b.ind
        i2 == b.ind \o b.ind
        i3 == b.ind \o b.ind \o b.ind
    IN  KwParm \o <<SP, "{", LF>>
        \o (IF b.name = <<>> THEN <<>>
            ELSE i2 \o KwName \o <<SP>> \o Quoted(b.name) \o <<LF>>)
        \o (IF b.defaults = <<>> THEN <<>>
            ELSE i2 \o KwDefault \o <<SP, "{", SP>> \o DefaultEntries(b.defaults)
                    \o <<"}", LF>>)
        \o (IF b.menu = <<>> THEN <<>>
            ELSE i2 \o KwMenu \o <<SP, "{", LF>> \o MenuLines(b.menu, i3)
                    \o i3 \o KwLanguage \o <<SP>> \o KwPython \o <<LF>>
                    \o i2 \o <<"}", LF>>)
        \o (IF b.cb = <<>> THEN <<>>
            ELSE i2 \o KwParmtag \o <<SP, "{", SP>> \o LitScriptCallback \o <<SP>>
                    \o Quoted(b.cb[1]) \o <<SP, "}", LF>>)
        \o (IF b.lang = <<>> THEN <<>>
            ELSE i2 \o KwParmtag \o <<SP, "{", SP>> \o LitScriptCallbackLanguage
                    \o <<SP>> \o Quoted(b.lang) \o <<SP, "}", LF>>)
        \o i1 \o <<"}">>

Header == <<"{", LF>>

Footer == <<"}", LF>>

\* The container text up to and excluding block k's indentation.
RECURSIVE TextBefore(_, _)
TextBefore(lay, k) ==
    IF k <= 1 THEN Header
    ELSE TextBefore(lay, k - 1) \o lay[k - 1].ind \o BlockText(lay[k - 1])
             \o <<LF>>

\* The offset of block k's "parm" keyword in the container text.
BlockStart(lay, k) == Len(TextBefore(lay, k)) + Len(lay[k].ind)

\* The container text; a container without blocks is an empty file.
ContainerText(lay) ==
    IF lay = <<>> THEN <<>>
    ELSE TextBefore(lay, Len(lay) + 1) \o Footer

\* The fragments a block holds, by kind, in the order _gather_items is to
\* return them.
RECURSIVE PythonDefaults(_)
PythonDefaults(ds) ==
    IF ds = <<>> THEN <<>>
    ELSE (IF Head(ds).lang = KwPython THEN <<"default">> ELSE <<>>)
             \o PythonDefaults(Tail(ds))

BlockKinds(b) ==
    (IF b.lang = KwPython /\ b.cb # <<>> THEN <<"callback">> ELSE <<>>)
        \o PythonDefaults(b.defaults)
        \o (IF b.menu # <<>> THEN <<"menu_script">> ELSE <<>>)

RECURSIVE LayoutKinds(_, _)
LayoutKinds(lay, k) ==
    IF k > Len(lay) THEN <<>>
    ELSE [i \in 1..Len(BlockKinds(lay[k])) |->
             [block |-> k, kind |-> BlockKinds(lay[k])[i]]]
         \o LayoutKinds(lay, k + 1)

Layouts ==
    {l \in UNION {[1..n -> Templates] : n \in 0..MaxParms} :
        Len(LayoutKinds(l, 1)) <= MaxFragments}

\* The name the container is given (DialogScriptItem.name).
OpName == <<"o", "p">>

-----------------------------------------------------------------------------
(* The runner (HoudiniPackageRunner.process_path), an external collaborator:*)
(* it returns a status and may rewrite the file it is given.               *)

Statuses == {0, 1, 2}

\* No position.
None == 0 - 1

\* What a runner may leave in a temp file that held temp: the file as it
\* was, the file with "# ok" appended, or two new lines.
RunnerOutputs(temp) ==
    {temp, temp \o <<"#", " ", "o", "k">>, <<"x", LF, "y", DQ, LF>>}

\* a | b on naturals.
RECURSIVE BitOr(_, _)
BitOr(a, b) ==
    IF a = 0 THEN b
    ELSE IF b = 0 THEN a
    ELSE 2 * BitOr(a \div 2, b \div 2) + (IF a % 2 = 1 \/ b % 2 = 1 THEN 1 ELSE 0)

-----------------------------------------------------------------------------
(* DialogScriptItem.process, one action per step between the calls it     *)
(* makes on the runner.                                                     *)

FragIdle ==
    /\ frag = <<>>
    /\ frag_pc = "off"
    /\ frag_files = <<>>
    /\ runner_name = ""
    /\ known_builtins = <<>>
    /\ frag_status = None
    /\ frag_returned = None
    /\ frag_events = <<>>

RunIdle ==
    /\ discovered = <<>>
    /\ given = <<>>
    /\ list_items = FALSE
    /\ runner_write_back = FALSE
    /\ run_pc = "off"
    /\ run_idx = 0
    /\ run_result = 0
    /\ run_returned = None
    /\ run_events = <<>>

AssetIdle ==
    /\ asset = <<>>
    /\ operators = 0
    /\ directory = <<>>
    /\ asset_pc = "off"
    /\ asset_returned = None
    /\ asset_events = <<>>

PureIdle ==
    /\ fn = "none"
    /\ arg_text = <<>>
    /\ arg_items = <<>>
    /\ arg_item = <<>>
    /\ fn_done = FALSE
    /\ out_text = <<>>
    /\ out_items = <<>>

\* DialogScriptItem.__init__: the text is read from the path once.
Init ==
    /\ layout \in Layouts
    /\ ds_contents = ContainerText(layout)
    /\ disk = ContainerText(layout)
    /\ write_back \in BOOLEAN
    /\ contents_changed = FALSE
    /\ pc = "start"
    /\ files_to_process = <<>>
    /\ idx = 0
    /\ result = 0
    /\ items_with_changed_contents = <<>>
    /\ temp_files = <<>>
    /\ calls = <<>>
    /\ seen = {}
    /\ first_failed = None
    /\ outputs = <<>>
    /\ handled = <<>>
    /\ PureIdle
    /\ FragIdle
    /\ RunIdle
    /\ AssetIdle

\* process() up to its loop: _gather_items, which may raise.
Gather ==
    /\ pc = "start"
    /\ LET g == GatherItems(ds_contents, OpName, write_back)
       IN  /\ pc' = IF g.raised THEN "raised" ELSE "loop"
           /\ files_to_process' = g.items
    /\ result' = 0
    /\ items_with_changed_contents' = <<>>
    /\ idx' = 0
    /\ UNCHANGED <<layout, ds_contents, disk, write_back, contents_changed,
                   temp_files, calls, seen, first_failed, outputs, handled>>
    /\ UNCHANGED <<pure_vars, frag_vars, run_vars, asset_vars>>

\* result = file_to_process.process(runner): the last status alone.
AccumulateLast(res, status) == status

\* result |= file_to_process.process(runner)
Accumulate(res, status) == BitOr(res, status)

\* The append without its test: every item is collected.
CollectAll(changed, item, position) == Append(changed, position)

\* if file_to_process.contents_changed: items_with_changed_contents.append(..)
Collect(changed, item, position) ==
    IF item.contents_changed THEN Append(changed, position) ELSE changed

\* The test without its second operand: if self.write_back:
WriteBackAlways == write_back

\* The test with a third operand: ... and result == 0, no write-back after
\* a failure.
WriteBackIfPassed ==
    write_back /\ items_with_changed_contents # <<>> /\ result = 0

\* if self.write_back and items_with_changed_contents:
WriteBackNeeded == write_back /\ items_with_changed_contents # <<>>

\* One iteration of the loop: file_to_process.process(runner), the runner
\* returning status and leaving out in the temp file.
ProcessFile(status, out) ==
    LET item == At(files_to_process, idx)
        done == ProcessedItem(item, out)
    IN  /\ files_to_process' = [files_to_process EXCEPT ![idx + 1] = done]
        /\ temp_files' = [p \in (DOMAIN temp_files) \cup {TempPath(item)} |->
                             IF p = TempPath(item) THEN out ELSE temp_files[p]]
        /\ result' = Accumulate(result, status)
        /\ items_with_changed_contents' =
               Collect(items_with_changed_contents, done, idx)
        /\ idx' = idx + 1
        /\ calls' = Append(calls, idx)
        /\ seen' = seen \cup {status}
        /\ first_failed' = IF first_failed = None /\ status # 0 THEN idx
                           ELSE first_failed
        /\ outputs' = Append(outputs, out)

Loop ==
    /\ pc = "loop"
    /\ idx < Len(files_to_process)
    /\ \E status \in Statuses :
           \E out \in RunnerOutputs(WriteContents(At(files_to_process, idx))) :
               ProcessFile(status, out)
    /\ UNCHANGED <<layout, ds_contents, disk, write_back, contents_changed, pc,
                   handled>>
    /\ UNCHANGED <<pure_vars, frag_vars, run_vars, asset_vars>>

\* The items at the given positions of files.
ItemsAt(files, positions) ==
    [i \in 1..Len(positions) |-> At(files, positions[i])]

\* The positions at which the items of sorted are found in files, in order
\* (the list holds references to the items).
PositionsOf(sorted, positions, files) ==
    [i \in 1..Len(sorted) |->
        CHOOSE p \in {positions[j] : j \in 1..Len(positions)} :
            /\ At(files, p) = sorted[i]
            /\ \/ Cardinality({j \in 1..Len(sorted) : sorted[j] = sorted[i]}) = 1
               \/ p = positions[i]]

\* process() after its loop: the write-back, and the return.
Finish ==
    /\ pc = "loop"
    /\ idx >= Len(files_to_process)
    /\ IF WriteBackNeeded
       THEN LET h == HandleChangedContents(
                         ds_contents,
                         ItemsAt(files_to_process, items_with_changed_contents))
            IN  /\ contents_changed' = TRUE
                /\ disk' = h.written
                /\ handled' = Append(handled, items_with_changed_contents)
                /\ items_with_changed_contents' =
                       PositionsOf(h.items, items_with_changed_contents,
                                   files_to_process)
       ELSE UNCHANGED <<contents_changed, disk, handled,
                        items_with_changed_contents>>
    /\ pc' = "done"
    /\ UNCHANGED <<layout, ds_contents, write_back, files_to_process, idx,
                   result, temp_files, calls, seen, first_failed, outputs>>
    /\ UNCHANGED <<pure_vars, frag_vars, run_vars, asset_vars>>

Next == Gather \/ Loop \/ Finish

Spec == Init /\ [][Next]_vars

-----------------------------------------------------------------------------
(* The pure functions, each applied once to an argument drawn from a       *)
(* bounded set.                                                             *)

\* The longest text the escaping and re-encoding functions are applied to.
MaxTextLen == 4

\* The largest stored indent of a menu script.
MaxIndent == 2

\* The longest container text changed contents are spliced into.
MaxSpliceLen == 5

\* The most items _handle_changed_contents is given.
MaxSpliceItems == 2

Strings(alphabet, n) == UNION {[1..k -> alphabet] : k \in 0..n}

\* Texts with the characters the escaping treats and two it does not.
EscapeTexts == Strings({"a", BS, DQ, CR, LF}, MaxTextLen)

\* Menu script contents: text, line terminators and a tab.
MenuTexts == Strings({"a", TAB, CR, LF}, MaxTextLen)

Letters == <<"a", "b", "c", "d", "e", "f", "g", "h", "i", "j", "k", "l", "m",
             "n", "o", "p", "q", "r", "s", "t", "u", "v", "w", "x", "y", "z">>

\* Container texts whose characters are all different.
SpliceTexts == {SubSeq(Letters, 1, n) : n \in 0..MaxSpliceLen}

Replacements == {<<>>, <<"X">>, <<"Y", "Z">>}

\* The changed items of a text of length n, as far as
\* _handle_changed_contents reads them: a span in the text and the
\* replacement.
ChangedItems(n) ==
    {[start_offset |-> span[1], end_offset |-> span[2], post_processed_code |-> r] :
        span \in {ab \in (0..n) \X (0..n) : ab[1] <= ab[2]}, r \in Replacements}

\* Lists of changed items, in any order, whose spans do not overlap and
\* start at different offsets.
ChangedLists(n) ==
    {l \in UNION {[1..k -> ChangedItems(n)] : k \in 0..MaxSpliceItems} :
        /\ \A i, j \in 1..Len(l) :
               i # j => /\ l[i].start_offset # l[j].start_offset
                        /\ \/ l[i].end_offset <= l[j].start_offset
                           \/ l[j].end_offset <= l[i].start_offset}

\* The most parmtag entries of a parameter block.
MaxTags == 3

\* The most line feeds between the last menu line and what follows it.
MaxGap == 2

\* The largest offset a parameter block starts at.
MaxParmStart == 1

\* The parmtag entries the blocks are written with: a callback language
\* that is python or not, a callback script that is empty or not.
TagValues ==
    {[tag |-> LitScriptCallbackLanguage, value |-> KwPython],
     [tag |-> LitScriptCallbackLanguage, value |-> <<"h", "s", "c", "r", "i", "p", "t">>],
     [tag |-> LitScriptCallback, value |-> <<"f", "(", ")">>],
     [tag |-> LitScriptCallback, value |-> <<>>]}

RECURSIVE TagEntries(_, _)
TagEntries(tags, ind) ==
    IF tags = <<>> THEN <<>>
    ELSE ind \o KwParmtag \o <<SP, "{", SP>> \o Head(tags).tag \o <<SP>>
             \o Quoted(Head(tags).value) \o <<SP, "}", LF>>
             \o TagEntries(Tail(tags), ind)

\* The text of a block [name, ind, defaults, menu, gap, menu2, tags], from
\* "parm" to its closing brace: a template's entries, with any number of
\* parmtag entries, with gap between the last menu line and the language
\* line, and with a second menu structure when menu2 has lines.
ParmText(b) ==
    LET i1 == b.ind
        i2 == b.ind \o b.ind
        i3 == b.ind \o b.ind \o b.ind
        lines == MenuLines(b.menu, i3)
    IN  KwParm \o <<SP, "{", LF>>
        \o (IF b.name = <<>> THEN <<>>
            ELSE i2 \o KwName \o <<SP>> \o Quoted(b.name) \o <<LF>>)
        \o (IF b.defaults = <<>> THEN <<>>
            ELSE i2 \o KwDefault \o <<SP, "{", SP>> \o DefaultEntries(b.defaults)
                    \o <<"}", LF>>)
        \o (IF b.menu = <<>> THEN <<>>
            ELSE i2 \o KwMenu \o <<SP, "{", LF>>
                    \o SubSeq(lines, 1, Len(lines) - 1) \o b.gap
                    \o i3 \o KwLanguage \o <<SP>> \o KwPython \o <<LF>>
                    \o i2 \o <<"}", LF>>)
        \o (IF b.menu2 = <<>> THEN <<>>
            ELSE i2 \o KwMenu \o <<SP, "{", LF>> \o MenuLines(b.menu2, i3)
                    \o i3 \o KwLanguage \o <<SP>> \o KwPython \o <<LF>>
                    \o i2 \o <<"}", LF>>)
        \o TagEntries(b.tags, i2)
        \o i1 \o <<"}">>

\* The parmtag entries of a template, as BlockText writes them.
TemplateTags(t) ==
    (IF t.cb = <<>> THEN <<>> ELSE <<[tag |-> LitScriptCallback, value |-> t.cb[1]]>>)
    \o (IF t.lang = <<>> THEN <<>>
        ELSE <<[tag |-> LitScriptCallbackLanguage, value |-> t.lang]>>)

\* The most entries of a default structure.
MaxDefaults == 3

\* The entries the default structures are written with: a quoted literal,
\* a number, an hscript expression and two Python expressions.
DefaultValues ==
    {[raw |-> <<"0">>, lang |-> <<>>],
     [raw |-> <<"1">>, lang |-> Unquoted],
     [raw |-> <<"$", "F">>, lang |-> <<"h", "s", "c", "r", "i", "p", "t", "-", "e", "x", "p", "r">>],
     [raw |-> <<"g", "(", ")">>, lang |-> KwPython],
     [raw |-> <<"h", "(", ")">>, lang |-> KwPython]}

\* The blocks fragments are extracted from: every list of parmtag entries
\* with and without a name entry, the templates with every gap, every
\* default structure, and blocks with two menu structures.
ExtractBlocks ==
    {[name |-> n, ind |-> <<SP>>, defaults |-> <<>>, menu |-> <<>>, gap |-> <<LF>>,
      menu2 |-> <<>>, tags |-> ts] :
        n \in {<<"p">>, <<>>}, ts \in Strings(TagValues, MaxTags)}
    \cup
    {[name |-> t.name, ind |-> t.ind, defaults |-> t.defaults, menu |-> t.menu,
      gap |-> Repeat(LF, g), menu2 |-> <<>>, tags |-> TemplateTags(t)] :
        t \in Templates, g \in 0..MaxGap}
    \cup
    {[name |-> <<"p">>, ind |-> <<SP>>, defaults |-> ds, menu |-> <<>>, gap |-> <<LF>>,
      menu2 |-> <<>>, tags |-> <<>>] :
        ds \in Strings(DefaultValues, MaxDefaults) \ {<<>>}}
    \cup
    {[name |-> <<"p">>, ind |-> <<SP>>, defaults |-> ds, menu |-> m, gap |-> <<LF>>,
      menu2 |-> <<<<"q">>>>, tags |-> <<>>] :
        ds \in {<<>>, <<[raw |-> <<"g", "(", ")">>, lang |-> KwPython]>>},
        m \in {<<<<"a">>>>, <<<<"a">>, <<"b">>>>}}

\* The largest offset of a span handed to _get_ds_file_offset.
MaxSpan == 10

\* The arguments of _get_ds_file_offset.
OffsetArgs ==
    [parm_start : 0..MaxParmStart, span : (0..MaxSpan) \X (0..MaxSpan),
     inclusive : BOOLEAN]

\* The blocks a changed menu script is put back into: a name and a menu
\* script of one or two lines, followed by every gap, indented with tabs,
\* with spaces or with both.
ReinsertBlocks ==
    {[name |-> <<"m">>, ind |-> i, defaults |-> <<>>, menu |-> m,
      gap |-> Repeat(LF, g), menu2 |-> <<>>, tags |-> <<>>] :
        i \in {<<TAB>>, <<SP, SP>>, <<SP, TAB>>},
        m \in {<<<<"a">>>>, <<<<"a">>, <<"b">>>>},
        g \in 0..MaxGap}

\* What the runner leaves in the temp file of a menu script.
ReinsertOutputs == {<<"z", LF>>, <<"x", LF, "y", LF>>}

\* The longest text a runner leaves in a temp file, its final line feed
\* apart.
MaxOutLen == 3

\* What the runner leaves in a temp file: any text with backslashes,
\* double-quotes and line feeds, and a final line feed.
RoundTripOutputs ==
    {out \o <<LF>> : out \in Strings({"a", BS, DQ, LF}, MaxOutLen)}

\* The blocks whose one fragment is written back and extracted again: a
\* Python callback, a Python default expression, a menu script.
RoundTripBlocks ==
    {[name |-> <<"p">>, ind |-> <<SP>>, defaults |-> <<>>, menu |-> <<>>, gap |-> <<LF>>,
      menu2 |-> <<>>, tags |-> TemplateTags(PCallback)],
     [name |-> <<"p">>, ind |-> <<SP>>,
      defaults |-> <<[raw |-> <<"g", "(", ")">>, lang |-> KwPython]>>,
      menu |-> <<>>, gap |-> <<LF>>, menu2 |-> <<>>, tags |-> <<>>],
     [name |-> <<"p">>, ind |-> <<SP>>, defaults |-> <<>>, menu |-> <<<<"a">>>>,
      gap |-> <<LF>>, menu2 |-> <<>>, tags |-> <<>>]}

\* The container holding the one block b.
ContainerOf(b) == Header \o b.ind \o ParmText(b) \o <<LF>> \o Footer

\* A parameter block to construct the items of the pure functions from.
SampleParm == BlockText(PAll)

\* One item of each class, built by its constructor.
SampleItems ==
    {DialogScriptCallbackItem(SampleParm, <<"a">>, 0, <<0, 3>>, OpName).items[1],
     DialogScriptDefaultExpressionItem(SampleParm, <<"a">>, 0, <<0, 3>>, OpName).items[1]}
    \cup
    {DialogScriptMenuScriptItem(
         SampleParm, 0, OpName,
         [menu_script |-> <<"a">>, span |-> <<0, 3>>, indent |-> n,
          uses_tabs |-> t]).items[1] : n \in 0..MaxIndent, t \in BOOLEAN}

ItemIdle ==
    /\ layout = <<>>
    /\ ds_contents = <<>>
    /\ disk = <<>>
    /\ write_back = FALSE
    /\ contents_changed = FALSE
    /\ pc = "off"
    /\ files_to_process = <<>>
    /\ idx = 0
    /\ result = 0
    /\ items_with_changed_contents = <<>>
    /\ temp_files = <<>>
    /\ calls = <<>>
    /\ seen = {}
    /\ first_failed = None
    /\ outputs = <<>>
    /\ handled = <<>>

PureInit ==
    /\ ItemIdle
    /\ FragIdle
    /\ RunIdle
    /\ AssetIdle
    /\ fn_done = FALSE
    /\ out_text = <<>>
    /\ out_items = <<>>
    /\ \/ /\ fn = "escape"
          /\ arg_text \in EscapeTexts
          /\ arg_items = <<>>
          /\ arg_item = <<>>
       \/ /\ fn = "load"
          /\ arg_text \in EscapeTexts
          /\ arg_items = <<>>
          /\ arg_item \in SampleItems
       \/ /\ fn = "post_process"
          /\ arg_text \in MenuTexts
          /\ arg_items = <<>>
          /\ arg_item \in SampleItems
       \/ /\ fn = "splice"
          /\ arg_text \in SpliceTexts
          /\ arg_items \in ChangedLists(Len(arg_text))
          /\ arg_item = <<>>
       \/ /\ fn = "reinsert"
          /\ arg_item \in [block : ReinsertBlocks, out : ReinsertOutputs]
          /\ arg_text = ContainerOf(arg_item.block)
          /\ arg_items = <<>>
       \/ /\ fn = "reextract"
          /\ arg_item \in [block : RoundTripBlocks, out : RoundTripOutputs]
          /\ arg_text = ContainerOf(arg_item.block)
          /\ arg_items = <<>>
       \/ /\ fn = "offset"
          /\ arg_item \in OffsetArgs
          /\ arg_text = <<>>
          /\ arg_items = <<>>
       \/ /\ fn = "extract"
          /\ arg_item \in [block : ExtractBlocks, parm_start : 0..MaxParmStart]
          /\ arg_text = ParmText(arg_item.block)
          /\ arg_items = <<>>

\* _escape_contents_for_single_line(arg_text)
Escape ==
    /\ fn = "escape" /\ ~fn_done
    /\ out_text' = EscapeContentsForSingleLine(arg_text)
    /\ fn_done' = TRUE
    /\ UNCHANGED <<fn, arg_text, arg_items, arg_item, out_items>>
    /\ UNCHANGED <<item_vars, frag_vars, run_vars, asset_vars>>

\* arg_item._load_contents(temp_path), the temp file holding arg_text
Load ==
    /\ fn = "load" /\ ~fn_done
    /\ out_text' = LoadContents(arg_item, arg_text)
    /\ fn_done' = TRUE
    /\ UNCHANGED <<fn, arg_text, arg_items, arg_item, out_items>>
    /\ UNCHANGED <<item_vars, frag_vars, run_vars, asset_vars>>

\* arg_item._post_process_contents(arg_text)
PostProcess ==
    /\ fn = "post_process" /\ ~fn_done
    /\ out_text' = PostProcessContents(arg_item, arg_text)
    /\ fn_done' = TRUE
    /\ UNCHANGED <<fn, arg_text, arg_items, arg_item, out_items>>
    /\ UNCHANGED <<item_vars, frag_vars, run_vars, asset_vars>>

\* _handle_changed_contents(arg_items) on a container holding arg_text
Splice ==
    /\ fn = "splice" /\ ~fn_done
    /\ LET h == HandleChangedContents(arg_text, arg_items)
       IN  /\ out_text' = h.written
           /\ out_items' = h.items
    /\ fn_done' = TRUE
    /\ UNCHANGED <<fn, arg_text, arg_items, arg_item>>
    /\ UNCHANGED <<item_vars, frag_vars, run_vars, asset_vars>>

\* The body of the loop of _gather_items for the block arg_text, matched at
\* arg_item.parm_start: out_items is [raised, items].
Extract ==
    /\ fn = "extract" /\ ~fn_done
    /\ out_items' = ParmItems(arg_text, arg_item.parm_start, OpName)
    /\ fn_done' = TRUE
    /\ UNCHANGED <<fn, arg_text, arg_items, arg_item, out_text>>
    /\ UNCHANGED <<item_vars, frag_vars, run_vars, asset_vars>>

\* The changed ones among items.
RECURSIVE ChangedAmong(_)
ChangedAmong(items) ==
    IF items = <<>> THEN <<>>
    ELSE (IF Head(items).contents_changed THEN <<Head(items)>> ELSE <<>>)
             \o ChangedAmong(Tail(items))

\* What DialogScriptItem.process leaves on disk given the items processed.
WrittenBack(contents, changed) ==
    IF changed # <<>> THEN HandleChangedContents(contents, changed).written
    ELSE contents

\* DialogScriptItem.process with write_back on a container holding arg_text,
\* the runner leaving arg_item.out in every temp file: out_items are the
\* items processed, out_text is the file afterwards.
Reinsert ==
    /\ fn = "reinsert" /\ ~fn_done
    /\ LET g == GatherItems(arg_text, OpName, TRUE)
           done == [i \in 1..Len(g.items) |-> ProcessedItem(g.items[i], arg_item.out)]
       IN  /\ out_items' = done
           /\ out_text' = WrittenBack(arg_text, ChangedAmong(done))
    /\ fn_done' = TRUE
    /\ UNCHANGED <<fn, arg_text, arg_items, arg_item>>
    /\ UNCHANGED <<item_vars, frag_vars, run_vars, asset_vars>>

\* DialogScriptItem.process as in Reinsert, and then _gather_items of a new
\* DialogScriptItem on the file written: out_items holds the items
\* processed and the items gathered again.
Reextract ==
    /\ fn = "reextract" /\ ~fn_done
    /\ LET g == GatherItems(arg_text, OpName, TRUE)
           done == [i \in 1..Len(g.items) |-> ProcessedItem(g.items[i], arg_item.out)]
           written == WrittenBack(arg_text, ChangedAmong(done))
       IN  /\ out_items' = [processed |-> done,
                            again |-> GatherItems(written, OpName, TRUE)]
           /\ out_text' = written
    /\ fn_done' = TRUE
    /\ UNCHANGED <<fn, arg_text, arg_items, arg_item>>
    /\ UNCHANGED <<item_vars, frag_vars, run_vars, asset_vars>>

\* _get_ds_file_offset(parm_start, span, inclusive)
Offset ==
    /\ fn = "offset" /\ ~fn_done
    /\ out_items' = GetDsFileOffset(arg_item.parm_start, arg_item.span,
                                    arg_item.inclusive)
    /\ fn_done' = TRUE
    /\ UNCHANGED <<fn, arg_text, arg_items, arg_item, out_text>>
    /\ UNCHANGED <<item_vars, frag_vars, run_vars, asset_vars>>

PureNext ==
    Escape \/ Load \/ PostProcess \/ Splice \/ Extract \/ Reinsert \/ Reextract \/ Offset

PureSpec == PureInit /\ [][PureNext]_vars

-----------------------------------------------------------------------------
(* DialogScriptInternalItem.process on one fragment, one action per step   *)
(* around the call it makes on the runner.                                  *)

\* The code of the fragments processed: empty, with and without a final
\* line feed, with a double-quote.
FragCodes == {<<>>, <<"a">>, <<"a", LF>>, <<"a", DQ, "b">>}

\* One item of each class with each code, write_back set or not.
FragItems ==
    {[item EXCEPT !.code = code, !.post_processed_code = code, !.write_back = wb] :
        item \in SampleItems, code \in FragCodes, wb \in BOOLEAN}

\* The runners: flake8 and pylint pass the item's ignored_builtins on; the
\* others (black, isort, modernize) do not look at them.
RunnerNames == {"flake8", "pylint", "black"}

\* What self.config.get_config_data("known_builtins", item, file_path) may
\* return.
ConfigBuiltins == {<<>>, <<<<"x">>>>}

\* Flake8Runner.process_path as it acts on the item: known_builtins is
\* the item's own list, and the config's names are added to it.
Flake8ProcessPath(item, known) ==
    [item EXCEPT !.ignored_builtins = @ \o known]

\* PylintRunner.process_path as it acts on the item: the names are copied to
\* a new list.
PylintProcessPath(item, known) == item

\* runner.process_path(temp_path, self) as it acts on the item.
ProcessPathItem(name, item, known) ==
    IF name = "flake8" THEN Flake8ProcessPath(item, known)
    ELSE IF name = "pylint" THEN PylintProcessPath(item, known)
    ELSE item

FragInit ==
    /\ ItemIdle
    /\ PureIdle
    /\ RunIdle
    /\ AssetIdle
    /\ frag \in FragItems
    /\ frag_pc = "start"
    /\ frag_files = <<>>
    /\ runner_name \in RunnerNames
    /\ known_builtins \in ConfigBuiltins
    /\ frag_status = None
    /\ frag_returned = None
    /\ frag_events = <<>>

\* temp_path = ...; self._write_contents(temp_path)
FragWrite ==
    /\ frag_pc = "start"
    /\ frag_files' = [p \in {TempPath(frag)} |-> WriteContents(frag)]
    /\ frag_events' = Append(frag_events,
                             [op |-> "write", path |-> TempPath(frag),
                              contents |-> WriteContents(frag)])
    /\ frag_pc' = "written"
    /\ UNCHANGED <<frag, runner_name, known_builtins, frag_status, frag_returned>>
    /\ UNCHANGED <<item_vars, pure_vars, run_vars, asset_vars>>

\* result = runner.process_path(temp_path, self): the runner returns status
\* and leaves out in the file.
FragProcessPath ==
    /\ frag_pc = "written"
    /\ \E status \in Statuses :
           \E out \in RunnerOutputs(frag_files[TempPath(frag)]) :
               /\ frag_status' = status
               /\ frag_files' = [frag_files EXCEPT ![TempPath(frag)] = out]
    /\ frag_events' = Append(frag_events,
                             [op |-> "process_path", path |-> TempPath(frag),
                              item |-> frag])
    /\ frag' = ProcessPathItem(runner_name, frag, known_builtins)
    /\ frag_pc' = "processed"
    /\ UNCHANGED <<runner_name, known_builtins, frag_returned>>
    /\ UNCHANGED <<item_vars, pure_vars, run_vars, asset_vars>>

\* if self.write_back: ...; return result
FragReturn ==
    /\ frag_pc = "processed"
    /\ frag' = ProcessedItem(frag, frag_files[TempPath(frag)])
    /\ frag_events' = IF frag.write_back
                      THEN Append(frag_events, [op |-> "read", path |-> TempPath(frag)])
                      ELSE frag_events
    /\ frag_returned' = frag_status
    /\ frag_pc' = "done"
    /\ UNCHANGED <<frag_files, runner_name, known_builtins, frag_status>>
    /\ UNCHANGED <<item_vars, pure_vars, run_vars, asset_vars>>

FragNext == FragWrite \/ FragProcessPath \/ FragReturn

FragSpec == FragInit /\ [][FragNext]_vars

-----------------------------------------------------------------------------
(* HoudiniPackageRunner.run over the items of its discoverer.  An item is  *)
(* any BaseItem: its process() returns a status or raises.                  *)

\* The most items the discoverer holds.
MaxItems == 3

\* The test without effect: the items are never only listed.
ListOnlyNever == FALSE

\* if self._list_items:
ListOnly == list_items

\* item.write_back = self.write_back: the runner's flag is copied.
WriteBackCopied(item, wb) == [item EXCEPT !.write_back = wb]

\* if self.write_back: item.write_back = True
WriteBackSet(item, wb) ==
    IF wb THEN [item EXCEPT !.write_back = TRUE] ELSE item

RunInit ==
    /\ ItemIdle
    /\ PureIdle
    /\ FragIdle
    /\ AssetIdle
    /\ discovered \in UNION {[1..n -> [write_back : BOOLEAN]] : n \in 0..MaxItems}
    /\ given = [i \in 1..Len(discovered) |-> discovered[i].write_back]
    /\ list_items \in BOOLEAN
    /\ runner_write_back \in BOOLEAN
    /\ run_pc = "start"
    /\ run_idx = 0
    /\ run_result = 0
    /\ run_returned = None
    /\ run_events = <<>>

\* The branch of list_items: every item is printed, and 0 returned.
RunList ==
    /\ run_pc = "start"
    /\ ListOnly
    /\ run_events' = [i \in 1..Len(discovered) |-> [op |-> "print", position |-> i - 1]]
    /\ run_returned' = 0
    /\ run_pc' = "done"
    /\ UNCHANGED <<discovered, given, list_items, runner_write_back, run_idx, run_result>>
    /\ UNCHANGED <<item_vars, pure_vars, frag_vars, asset_vars>>

\* One iteration of the loop, the item's process() returning status.
RunItem ==
    /\ run_pc \in {"start", "loop"}
    /\ ~ListOnly
    /\ run_idx < Len(discovered)
    /\ LET item == WriteBackSet(At(discovered, run_idx), runner_write_back)
       IN  /\ discovered' = [discovered EXCEPT ![run_idx + 1] = item]
           /\ \E status \in Statuses :
                  /\ run_result' = BitOr(run_result, status)
                  /\ run_events' = Append(run_events,
                                          [op |-> "process", position |-> run_idx,
                                           write_back |-> item.write_back,
                                           status |-> status])
    /\ run_idx' = run_idx + 1
    /\ run_pc' = "loop"
    /\ UNCHANGED <<given, list_items, runner_write_back, run_returned>>
    /\ UNCHANGED <<item_vars, pure_vars, frag_vars, asset_vars>>

\* One iteration of the loop, the item's process() raising: run() is left.
RunItemRaises ==
    /\ run_pc \in {"start", "loop"}
    /\ ~ListOnly
    /\ run_idx < Len(discovered)
    /\ LET item == WriteBackSet(At(discovered, run_idx), runner_write_back)
       IN  /\ discovered' = [discovered EXCEPT ![run_idx + 1] = item]
           /\ run_events' = Append(run_events,
                                   [op |-> "process", position |-> run_idx,
                                    write_back |-> item.write_back,
                                    status |-> None])
    /\ run_pc' = "raised"
    /\ UNCHANGED <<given, list_items, runner_write_back, run_idx, run_result, run_returned>>
    /\ UNCHANGED <<item_vars, pure_vars, frag_vars, asset_vars>>

\* return result
RunReturn ==
    /\ run_pc \in {"start", "loop"}
    /\ ~ListOnly
    /\ run_idx >= Len(discovered)
    /\ run_returned' = run_result
    /\ run_pc' = "done"
    /\ UNCHANGED <<discovered, given, list_items, runner_write_back, run_idx,
                   run_result, run_events>>
    /\ UNCHANGED <<item_vars, pure_vars, frag_vars, asset_vars>>

RunNext == RunList \/ RunItem \/ RunItemRaises \/ RunReturn

RunSpec == RunInit /\ [][RunNext]_vars

-----------------------------------------------------------------------------
(* BinaryDigitalAssetFile.process: the archive is expanded with hotl, the  *)
(* expanded directory is processed operator by operator, and the directory *)
(* is collapsed back.  hotl and the operators are external: a command      *)
(* returns a code, an operator's process() returns a status and leaves     *)
(* its contents_changed set or not, or raises.                              *)

\* The most operators an archive holds.
MaxOperators == 2

\* What execute_subprocess_command returns: 0, or a failure.
ReturnCodes == {0, 1}

\* The test without its second operand: if self.write_back:
CollapseIfWriteBack(item) == item.write_back

\* if self.write_back and self.contents_changed:
CollapseNeeded(item) == item.write_back /\ item.contents_changed

AssetInit ==
    /\ ItemIdle
    /\ PureIdle
    /\ FragIdle
    /\ RunIdle
    /\ asset \in [write_back : BOOLEAN, contents_changed : {FALSE}]
    /\ operators \in 0..MaxOperators
    /\ directory = <<>>
    /\ asset_pc = "start"
    /\ asset_returned = None
    /\ asset_events = <<>>

\* self._extract_file(...), and the DigitalAssetDirectory made of the
\* target folder.
AssetExtract ==
    /\ asset_pc = "start"
    /\ \E return_code \in ReturnCodes :
           /\ asset_events' = Append(asset_events,
                                     [op |-> "extract", return_code |-> return_code])
           /\ IF return_code # 0
              THEN /\ asset_pc' = "raised"
                   /\ UNCHANGED directory
              ELSE /\ asset_pc' = "extracted"
                   /\ directory' = [class |-> "DigitalAssetDirectory",
                                    standalone |-> FALSE,
                                    write_back |-> asset.write_back,
                                    changed_before |-> FALSE,
                                    contents_changed |-> FALSE,
                                    idx |-> 0,
                                    result |-> 0]
    /\ UNCHANGED <<asset, operators, asset_returned>>
    /\ UNCHANGED <<item_vars, pure_vars, frag_vars, run_vars>>

\* DigitalAssetDirectory.process up to its loop: _build_operator_list,
\* which raises when the folder holds no Sections.list.
AssetBuild ==
    /\ asset_pc = "extracted"
    /\ \E found \in BOOLEAN :
           asset_pc' = IF found THEN "loop" ELSE "raised"
    /\ UNCHANGED <<asset, operators, directory, asset_returned, asset_events>>
    /\ UNCHANGED <<item_vars, pure_vars, frag_vars, run_vars>>

\* The flag taken from the item just processed, whatever it was before.
LastChanged(flag, changed) == changed

\* self.contents_changed |= operator.contents_changed
OrChanged(flag, changed) == flag \/ changed

\* One iteration of the loop of DigitalAssetDirectory.process, and of
\* ExpandedOperatorType.process over its items.
AssetOperator ==
    /\ asset_pc = "loop"
    /\ directory.idx < operators
    /\ \E status \in Statuses :
           \E changed \in BOOLEAN :
               /\ directory' = [directory EXCEPT
                                   !.result = BitOr(@, status),
                                   !.contents_changed = OrChanged(@, changed),
                                   !.idx = @ + 1]
               /\ asset_events' = Append(asset_events,
                                         [op |-> "process", position |-> directory.idx,
                                          status |-> status, changed |-> changed])
    /\ UNCHANGED <<asset, operators, asset_pc, asset_returned>>
    /\ UNCHANGED <<item_vars, pure_vars, frag_vars, run_vars>>

\* One iteration of the loop, the operator's process() raising.
AssetOperatorRaises ==
    /\ asset_pc = "loop"
    /\ directory.idx < operators
    /\ asset_events' = Append(asset_events,
                              [op |-> "process", position |-> directory.idx,
                               status |-> None, changed |-> FALSE])
    /\ asset_pc' = "raised"
    /\ UNCHANGED <<asset, operators, directory, asset_returned>>
    /\ UNCHANGED <<item_vars, pure_vars, frag_vars, run_vars>>

\* The directory's process() returns: self.contents_changed is taken from
\* it, and process() returns unless the directory is to be collapsed.
AssetProcessed ==
    /\ asset_pc = "loop"
    /\ ~directory.standalone
    /\ directory.idx >= operators
    /\ asset' = [asset EXCEPT !.contents_changed = directory.contents_changed]
    /\ IF CollapseNeeded(asset')
       THEN /\ asset_pc' = "collapse"
            /\ UNCHANGED asset_returned
       ELSE /\ asset_pc' = "done"
            /\ asset_returned' = directory.result
    /\ UNCHANGED <<operators, directory, asset_events>>
    /\ UNCHANGED <<item_vars, pure_vars, frag_vars, run_vars>>

\* self._collapse_dir(...); return result
AssetCollapse ==
    /\ asset_pc = "collapse"
    /\ \E return_code \in ReturnCodes :
           /\ asset_events' = Append(asset_events,
                                     [op |-> "collapse", return_code |-> return_code])
           /\ IF return_code # 0
              THEN /\ asset_pc' = "raised"
                   /\ UNCHANGED asset_returned
              ELSE /\ asset_pc' = "done"
                   /\ asset_returned' = directory.result
    /\ UNCHANGED <<asset, operators, directory>>
    /\ UNCHANGED <<item_vars, pure_vars, frag_vars, run_vars>>

AssetNext ==
    \/ AssetExtract
    \/ AssetBuild
    \/ AssetOperator
    \/ AssetOperatorRaises
    \/ AssetProcessed
    \/ AssetCollapse

AssetSpec == AssetInit /\ [][AssetNext]_vars

-----------------------------------------------------------------------------
(* process() of the three digital asset items: a BinaryDigitalAssetFile, *)
(* and a DigitalAssetDirectory or an ExpandedOperatorType called on its  *)
(* own, whatever its contents_changed was before the call.               *)

\* The items whose process() is the loop alone.  changed_before keeps the
\* contents_changed the item was called with.
StandaloneItems ==
    {[class |-> c, standalone |-> TRUE, write_back |-> wb, changed_before |-> f,
      contents_changed |-> f, idx |-> 0, result |-> 0] :
        c \in {"DigitalAssetDirectory", "ExpandedOperatorType"},
        wb \in BOOLEAN, f \in BOOLEAN}

DirectoryInit ==
    /\ ItemIdle
    /\ PureIdle
    /\ FragIdle
    /\ RunIdle
    /\ operators \in 0..MaxOperators
    /\ asset_returned = None
    /\ asset_events = <<>>
    /\ \/ /\ asset \in [write_back : BOOLEAN, contents_changed : BOOLEAN]
          /\ directory = <<>>
          /\ asset_pc = "start"
       \/ /\ asset = <<>>
          /\ directory \in StandaloneItems
          \* an operator type always holds its DialogScript item
          /\ directory.class = "ExpandedOperatorType" => operators >= 1
          /\ asset_pc = "extracted"

\* return result, of a directory or an operator type called on its own.
DirectoryReturn ==
    /\ asset_pc = "loop"
    /\ directory.standalone
    /\ directory.idx >= operators
    /\ asset_returned' = directory.result
    /\ asset_pc' = "returned"
    /\ UNCHANGED <<asset, operators, directory, asset_events>>
    /\ UNCHANGED <<item_vars, pure_vars, frag_vars, run_vars>>

DirectoryNext ==
    \/ AssetExtract
    \/ AssetBuild
    \/ AssetOperator
    \/ AssetOperatorRaises
    \/ AssetProcessed
    \/ AssetCollapse
    \/ DirectoryReturn

DirectorySpec == DirectoryInit /\ [][DirectoryNext]_vars

-----------------------------------------------------------------------------
(* Properties of the pure functions (PureSpec).                            *)

\* The elements of a sequence.
Range(seq) == {seq[i] : i \in 1..Len(seq)}

\* The concatenation of a sequence of texts.
RECURSIVE Concat(_)
Concat(ts) == IF ts = <<>> THEN <<>> ELSE Head(ts) \o Concat(Tail(ts))

\* The text T with the span of every item of the set S replaced by the
\* item's post_processed_code, the rightmost span first (so the offsets of
\* the spans still to be replaced are those of T).
RECURSIVE ReplaceSpans(_, _)
ReplaceSpans(T, S) ==
    IF S = {} THEN T
    ELSE LET last == CHOOSE x \in S : \A y \in S : y.start_offset <= x.start_offset
         IN  ReplaceSpans(Slice(T, 0, last.start_offset)
                              \o last.post_processed_code
                              \o SliceFrom(T, last.end_offset),
                          S \ {last})

\* C1: _handle_changed_contents, given changed fragments in any order whose
\* spans lie in the container text and do not overlap, writes the text with
\* each span replaced by its fragment's post_processed_code and the text
\* between the spans kept; for two fragments that is prefix + replacement1
\* + middle + replacement2 + suffix; and the list it was given ends up
\* sorted ascending by start offset.
C1_SpliceInStartOrder ==
    (fn = "splice" /\ fn_done) =>
        /\ out_text = ReplaceSpans(arg_text, Range(arg_items))
        /\ Len(out_items) = Len(arg_items)
        /\ Range(out_items) = Range(arg_items)
        /\ \A i \in 1..(Len(out_items) - 1) :
               out_items[i].start_offset < out_items[i + 1].start_offset
        /\ Len(out_items) = 2 =>
               out_text = Slice(arg_text, 0, out_items[1].start_offset)
                              \o out_items[1].post_processed_code
                              \o Slice(arg_text, out_items[1].end_offset,
                                       out_items[2].start_offset)
                              \o out_items[2].post_processed_code
                              \o SliceFrom(arg_text, out_items[2].end_offset)

\* Two changed fragments supplied last span first, with text before,
\* between and after their spans.
C1_Witness ==
    /\ fn = "splice" /\ fn_done
    /\ Len(arg_items) = 2
    /\ arg_items[2].start_offset > 0
    /\ arg_items[2].start_offset < arg_items[2].end_offset
    /\ arg_items[2].end_offset < arg_items[1].start_offset
    /\ arg_items[1].start_offset < arg_items[1].end_offset
    /\ arg_items[1].end_offset < Len(arg_text)
    /\ arg_items[1].post_processed_code # arg_items[2].post_processed_code
    /\ out_items = <<arg_items[2], arg_items[1]>>

\* What the escaping makes of one character.
EscapedChar(c) ==
    CASE c = CR -> <<BS, "r">>
      [] c = LF -> <<BS, "n">>
      [] c = DQ -> <<BS, DQ>>
      [] OTHER -> <<c>>

\* The text with every character escaped on its own, in order.
EscapedText(t) == Concat([i \in 1..Len(t) |-> EscapedChar(t[i])])

\* The text without one final line feed.
WithoutFinalNewline(t) ==
    IF Len(t) > 0 /\ t[Len(t)] = LF THEN SubSeq(t, 1, Len(t) - 1) ELSE t

\* C7: _escape_contents_for_single_line maps every carriage return to
\* backslash-r, every line feed to backslash-n and every double-quote to
\* backslash-quote, and leaves every other character, backslashes included,
\* unchanged and in order; _load_contents applies it to the text read
\* back, less one final line feed, exactly when the fragment is a callback
\* or a default expression, never for a menu script.
C7_EscapeMapsThreeCharacters ==
    /\ (fn = "escape" /\ fn_done) => out_text = EscapedText(arg_text)
    /\ (fn = "load" /\ fn_done) =>
           out_text = IF arg_item.kind \in {"callback", "default"}
                      THEN EscapedText(WithoutFinalNewline(ReadText(arg_text)))
                      ELSE WithoutFinalNewline(ReadText(arg_text))

\* A text holding a double-quote, a line feed and a backslash: escaped by
\* the function, and reloaded unescaped for a menu script.
C7_Witness ==
    /\ fn_done
    /\ {DQ, LF, BS} \subseteq Range(arg_text)
    /\ \/ fn = "escape" /\ Len(out_text) = Len(arg_text) + 2
       \/ fn = "load" /\ arg_item.kind = "menu_script" /\ out_text = arg_text

\* How many backslashes end the first n characters of t.
RECURSIVE BackslashesBefore(_, _)
BackslashesBefore(t, n) ==
    IF n >= 1 /\ t[n] = BS THEN 1 + BackslashesBefore(t, n - 1) ELSE 0

\* C8: the escaped text is safe inside a double-quoted string whose escape
\* character is backslash: it holds no raw carriage return or line feed,
\* and every double-quote in it follows an odd number of backslashes.
C8_EscapedIsSafeInQuotes ==
    (fn = "escape" /\ fn_done) =>
        /\ \A i \in 1..Len(out_text) : out_text[i] \notin {CR, LF}
        /\ \A i \in 1..Len(out_text) :
               out_text[i] = DQ => BackslashesBefore(out_text, i - 1) % 2 = 1

\* The indentation a menu script item stores.
StoredIndent(item) ==
    [k \in 1..item.indent |-> IF item.uses_tabs THEN TAB ELSE SP]

\* Line i (from 1) of a wrapped menu script.
WrappedLine(item, lines, i) ==
    (IF i = 1 THEN <<>> ELSE StoredIndent(item))
        \o <<"[", SP, DQ>> \o lines[i] \o <<DQ, SP, "]", LF>>

\* C9: DialogScriptMenuScriptItem._post_process_contents returns, for
\* contents that split into the lines l_0..l_n, [ "l_0" ] and a line feed,
\* then for every later line the stored indent (that many tabs when
\* uses_tabs, spaces otherwise), [ "l_i" ] and a line feed; the first line
\* has no prefix, so one line gives exactly [ "<line>" ] and a line feed.
C9_MenuLinesWrapped ==
    (fn = "post_process" /\ fn_done /\ arg_item.kind = "menu_script") =>
        LET lines == SplitLines(arg_text)
        IN  /\ out_text = Concat([i \in 1..Len(lines) |->
                                     WrappedLine(arg_item, lines, i)])
            /\ Len(lines) = 1 =>
                   out_text = <<"[", SP, DQ>> \o lines[1] \o <<DQ, SP, "]", LF>>

\* A menu script of two lines, re-encoded with an indent of two tabs.
C9_Witness ==
    /\ fn = "post_process" /\ fn_done
    /\ arg_item.kind = "menu_script"
    /\ arg_item.indent = 2 /\ arg_item.uses_tabs
    /\ arg_text = <<"a", LF, "a">>
    /\ out_text = <<"[", SP, DQ, "a", DQ, SP, "]", LF,
                    TAB, TAB, "[", SP, DQ, "a", DQ, SP, "]", LF>>

-----------------------------------------------------------------------------
(* Properties of DialogScriptItem.process (Spec).                          *)

\* The positions in files_to_process of the fragments whose
\* contents_changed is true.
ChangedPositions ==
    {p \in 0..(Len(files_to_process) - 1) : At(files_to_process, p).contents_changed}

\* The container text with the span of every changed fragment replaced.
ExpectedContainer ==
    ReplaceSpans(ContainerText(layout),
                 {At(files_to_process, p) : p \in ChangedPositions})

\* No fragment's reloaded contents differ from its code.
NothingDiffers ==
    /\ Len(outputs) = Len(files_to_process)
    /\ \A i \in 1..Len(files_to_process) :
           LoadContents(files_to_process[i], outputs[i]) = files_to_process[i].code

\* C2: when no fragment's processed content differs from its code, the
\* container file is not written (its text after process() is its text
\* before) and the container's contents_changed stays false, with
\* write_back on or off.
C2_RoundTripIdentity ==
    (pc = "done" /\ NothingDiffers) =>
        /\ disk = ContainerText(layout)
        /\ handled = <<>>
        /\ ~contents_changed

\* Two fragments processed with write_back on, neither differing.
C2_Witness ==
    /\ pc = "done"
    /\ write_back
    /\ Len(files_to_process) >= 2
    /\ NothingDiffers
    /\ disk = ContainerText(layout)

Return1 == <<"r", "e", "t", "u", "r", "n", " ", "1">>

HashOk == <<"#", " ", "o", "k">>

\* C3: for a container of one parameter block with the Python callback
\* "return 1" and write_back on, a runner that leaves the temp file as it
\* is yields no changed fragment and an unmodified container, and a runner
\* that appends "# ok" yields one changed callback fragment and a container
\* equal to the original outside the callback's text, with the escaped new
\* contents in its place.
C3_CallbackScenario ==
    (pc = "done" /\ write_back /\ layout = <<PCallback>>) =>
        LET T == ContainerText(layout)
            s == CHOOSE p \in 0..Len(T) : Slice(T, p, p + Len(Return1)) = Return1
        IN  /\ Len(files_to_process) = 1
            /\ files_to_process[1].kind = "callback"
            /\ outputs[1] = Return1 \o <<LF>> =>
                   /\ ChangedPositions = {}
                   /\ disk = T
                   /\ ~contents_changed
            /\ outputs[1] = Return1 \o <<LF>> \o HashOk =>
                   /\ ChangedPositions = {0}
                   /\ contents_changed
                   /\ disk = Slice(T, 0, s) \o Return1 \o <<BS, "n">> \o HashOk
                                 \o SliceFrom(T, s + Len(Return1))

\* The runner appended "# ok" and the container was rewritten.
C3_Witness ==
    /\ pc = "done" /\ write_back /\ layout = <<PCallback>>
    /\ outputs = <<Return1 \o <<LF>> \o HashOk>>
    /\ disk # ContainerText(layout)
    /\ Len(disk) = Len(ContainerText(layout)) + 6

\* C4: process() calls process on every gathered fragment once, in the
\* order gathered, whatever the earlier fragments returned, and returns
\* the bitwise OR of the statuses: non-zero iff some fragment returned
\* non-zero, and 0 when there are no fragments.
C4_EveryFragmentProcessed ==
    /\ pc \in {"loop", "done"} =>
           /\ idx <= Len(files_to_process)
           /\ calls = [i \in 1..idx |-> i - 1]
           /\ result = (IF 1 \in seen THEN 1 ELSE 0) + (IF 2 \in seen THEN 2 ELSE 0)
    /\ pc = "done" =>
           /\ Len(calls) = Len(files_to_process)
           /\ result # 0 <=> \E status \in seen : status # 0
           /\ files_to_process = <<>> => result = 0

\* The first of three fragments failed; the other two were processed and
\* both statuses are in the result.
C4_Witness ==
    /\ pc = "done"
    /\ Len(files_to_process) = 3
    /\ first_failed = 0
    /\ calls = <<0, 1, 2>>
    /\ seen = {0, 1, 2}
    /\ result = 3

\* C5: with write_back on, when one fragment's runner call fails and
\* another fragment changed, the changed fragment's replacement is still
\* spliced in and written, and process() returns non-zero.
C5_FailureDoesNotAbort ==
    (/\ pc = "done"
     /\ write_back
     /\ first_failed # None
     /\ ChangedPositions \ {first_failed} # {}) =>
        /\ disk = ExpectedContainer
        /\ contents_changed
        /\ result # 0
        /\ idx = Len(files_to_process)

\* The first fragment failed and did not change, a later one passed and
\* changed, and the file was rewritten.
C5_Witness ==
    /\ pc = "done"
    /\ write_back
    /\ first_failed = 0
    /\ ChangedPositions = {1}
    /\ seen = {0, 1}
    /\ disk # ContainerText(layout)
    /\ disk = ExpectedContainer

\* C6: process() rewrites the container file and sets the container's
\* contents_changed iff write_back is on and some fragment's
\* contents_changed became true; at most once per call, only after every
\* fragment was processed, and with exactly the changed fragments.
C6_WriteBackOnceWhenChanged ==
    /\ pc \in {"start", "loop", "raised"} =>
           /\ handled = <<>>
           /\ ~contents_changed
           /\ disk = ContainerText(layout)
    /\ pc = "done" =>
           /\ idx = Len(files_to_process)
           /\ Len(handled) <= 1
           /\ handled # <<>> <=> (write_back /\ ChangedPositions # {})
           /\ contents_changed <=> handled # <<>>
           /\ handled = <<>> => disk = ContainerText(layout)
           /\ handled # <<>> =>
                  /\ Range(handled[1]) = ChangedPositions
                  /\ Len(handled[1]) = Cardinality(ChangedPositions)
                  /\ disk = ExpectedContainer

\* One rewrite, given two of three fragments.
C6_Witness ==
    /\ pc = "done"
    /\ Len(files_to_process) = 3
    /\ Len(handled) = 1
    /\ handled[1] = <<0, 2>>
    /\ contents_changed

\* C10: _gather_items returns the fragments block by block in the order
\* the blocks are scanned, and within a block the callback, then the
\* default expressions, then the menu script; an empty container gives
\* none.
C10_ItemsInScanOrder ==
    pc \in {"loop", "done"} =>
        /\ Len(files_to_process) = Len(LayoutKinds(layout, 1))
        /\ \A i \in 1..Len(files_to_process) :
               /\ files_to_process[i].kind = LayoutKinds(layout, 1)[i].kind
               /\ files_to_process[i].parm_start =
                      BlockStart(layout, LayoutKinds(layout, 1)[i].block)
        /\ layout = <<>> => files_to_process = <<>>

\* Two blocks: a callback and a menu script from the first, a callback from
\* the second.
C10_Witness ==
    /\ pc = "loop"
    /\ layout = <<PMenu, PCallback>>
    /\ [i \in 1..Len(files_to_process) |-> files_to_process[i].kind]
           = <<"callback", "menu_script", "callback">>

-----------------------------------------------------------------------------
(* Properties of the extraction from one parameter block (PureSpec, the    *)
(* function "extract").                                                     *)

\* The block fragments were extracted from, once they have been.
Extracted == fn = "extract" /\ fn_done

\* The entries of the block with the given tag, in the order written.
TagsOf(b, tag) ==
    LET Tagged(e) == e.tag = tag
    IN  SelectSeq(b.tags, Tagged)

\* The items of the given kind, in the order returned.
ItemsOfKind(items, kind) ==
    LET OfKind(item) == item.kind = kind
    IN  SelectSeq(items, OfKind)

\* C11: for a parameter block with a name entry, extraction yields exactly
\* one callback item, holding the first script_callback, when the block's
\* first script_callback_language entry is "python" and a script_callback
\* entry is present, and yields no callback item when the first language
\* is another one, when there is no language entry or when there is no
\* script_callback entry; it never yields two.
C11_OneCallbackIffPython ==
    (Extracted /\ arg_item.block.name # <<>>) =>
        LET langs == TagsOf(arg_item.block, LitScriptCallbackLanguage)
            scripts == TagsOf(arg_item.block, LitScriptCallback)
            callbacks == ItemsOfKind(out_items.items, "callback")
        IN  /\ ~out_items.raised
            /\ IF langs # <<>> /\ langs[1].value = KwPython /\ scripts # <<>>
               THEN /\ Len(callbacks) = 1
                    /\ callbacks[1].code = scripts[1].value
               ELSE Len(callbacks) = 0

\* A block with a script and two language entries, the first not python and
\* the second python, has been extracted from: no callback item.
C11_Witness ==
    /\ Extracted
    /\ arg_item.block.name # <<>>
    /\ LET langs == TagsOf(arg_item.block, LitScriptCallbackLanguage)
       IN  /\ Len(langs) = 2
           /\ langs[1].value # KwPython
           /\ langs[2].value = KwPython
    /\ TagsOf(arg_item.block, LitScriptCallback) # <<>>
    /\ out_items.items = <<>>

\* The suffix of a fragment kind, as the specification spells it.
KindSuffix(kind) ==
    CASE kind = "callback" -> <<"c", "a", "l", "l", "b", "a", "c", "k">>
      [] kind = "default" -> <<"d", "e", "f", "a", "u", "l", "t">>
      [] kind = "menu_script" -> <<"m", "e", "n", "u", "_", "s", "c", "r", "i", "p", "t">>

\* C12: the display name of every fragment extracted is the base name, one
\* underscore, the parameter name, one underscore and the suffix of its
\* kind (callback, default or menu_script).
C12_DisplayNameSingleUnderscores ==
    (Extracted /\ ~out_items.raised) =>
        \A i \in 1..Len(out_items.items) :
            DisplayName(out_items.items[i]) =
                OpName \o <<"_">> \o arg_item.block.name \o <<"_">>
                    \o KindSuffix(out_items.items[i].kind)

\* C13: extraction from a parameter block without a name entry fails with
\* an error; the block is never passed over without one.
C13_NamelessBlockRaises ==
    (Extracted /\ arg_item.block.name = <<>>) => out_items.raised

\* C18: every fragment extracted from a block that starts at offset b and
\* is L characters long has b <= start_offset < end_offset <= b + L, a
\* callback whose quoted script is empty included.
C18_SpanInsideBlockNonEmpty ==
    (Extracted /\ ~out_items.raised) =>
        \A i \in 1..Len(out_items.items) :
            /\ arg_item.parm_start <= out_items.items[i].start_offset
            /\ out_items.items[i].start_offset < out_items.items[i].end_offset
            /\ out_items.items[i].end_offset <= arg_item.parm_start + Len(arg_text)

\* C19: _get_ds_file_offset returns (parm_start + s + 1, parm_start + e - 1)
\* when inclusive is false and (parm_start + s, parm_start + e) when it is
\* true; the span (3, 10) of a block at 0 gives (4, 9) and (3, 10).  The
\* callback and default-expression items use it non-inclusive (their span
\* lies between the two quotes), the menu script items inclusive (their
\* span starts at the first opening bracket).
C19_OffsetConvention ==
    /\ (fn = "offset" /\ fn_done) =>
           LET b == arg_item.parm_start
               s == arg_item.span[1]
               e == arg_item.span[2]
           IN  /\ ~arg_item.inclusive => out_items = <<b + s + 1, b + e - 1>>
               /\ arg_item.inclusive => out_items = <<b + s, b + e>>
               /\ (b = 0 /\ s = 3 /\ e = 10) =>
                      out_items = IF arg_item.inclusive THEN <<3, 10>> ELSE <<4, 9>>
    /\ (Extracted /\ ~out_items.raised) =>
           \A i \in 1..Len(out_items.items) :
               LET item == out_items.items[i]
                   from == item.start_offset - arg_item.parm_start
                   to == item.end_offset - arg_item.parm_start
               IN  IF item.kind = "menu_script"
                   THEN At(arg_text, from) = "["
                   ELSE /\ At(arg_text, from - 1) = DQ
                        /\ At(arg_text, to) = DQ

\* The span (3, 10) of a block at 0 has been translated non-inclusive.
C19_Witness ==
    /\ fn = "offset" /\ fn_done
    /\ arg_item = [parm_start |-> 0, span |-> <<3, 10>>, inclusive |-> FALSE]
    /\ out_items = <<4, 9>>

-----------------------------------------------------------------------------
(* Properties of the reinsertion of a menu script (PureSpec, the function  *)
(* "reinsert").                                                             *)

\* The text from the last closing bracket on.
FromLastBracket(text) ==
    LET at == {i \in 1..Len(text) : text[i] = "]"}
    IN  SubSeq(text, CHOOSE i \in at : \A j \in at : j <= i, Len(text))

\* C14: after the reinsertion of a changed menu script the text from the
\* closing bracket of the last re-encoded line on is the text from the
\* closing bracket of the last original line on: the line feeds that
\* followed the last line are neither duplicated nor lost.
C14_MenuTerminatorsKept ==
    (/\ fn = "reinsert" /\ fn_done
     /\ Len(out_items) = 1
     /\ out_items[1].kind = "menu_script"
     /\ out_items[1].contents_changed) =>
        FromLastBracket(out_text) = FromLastBracket(arg_text)

-----------------------------------------------------------------------------
(* Properties of the processing of one fragment (FragSpec).                *)

\* The events of the given kind, in order.
EventsOf(events, op) ==
    LET IsOp(e) == e.op = op
    IN  SelectSeq(events, IsOp)

\* C20: process() writes the temp file named after the display name first,
\* the code with one line feed appended iff it does not end with one; then
\* calls process_path once, with that path and the fragment; then, only
\* when write_back is set, reads the file again; and returns the status
\* process_path returned, whether or not the contents changed.
C20_ProcessOrder ==
    frag_pc # "off" =>
        LET e == frag_events
            name == DisplayName(frag) \o <<".", "p", "y">>
            ends == frag.code # <<>> /\ frag.code[Len(frag.code)] = LF
        IN  /\ Len(e) = CASE frag_pc = "start" -> 0
                          [] frag_pc = "written" -> 1
                          [] frag_pc = "processed" -> 2
                          [] frag_pc = "done" -> IF frag.write_back THEN 3 ELSE 2
            /\ Len(e) >= 1 =>
                   /\ e[1].op = "write"
                   /\ e[1].path = name
                   /\ e[1].contents = IF ends THEN frag.code ELSE frag.code \o <<LF>>
            /\ Len(e) >= 2 =>
                   /\ e[2].op = "process_path"
                   /\ e[2].path = name
                   /\ e[2].item.code = frag.code
                   /\ e[2].item.kind = frag.kind
                   /\ ~e[2].item.contents_changed
            /\ Len(e) >= 3 => e[3].op = "read" /\ e[3].path = name
            /\ frag_pc = "done" => frag_returned = frag_status
            /\ frag_pc # "done" => frag_returned = None

\* The contents reloaded from a temp file holding file: the text read, less
\* one final line feed, escaped for the single-line kinds.
Reloaded(item, file) ==
    IF item.kind = "menu_script" THEN WithoutFinalNewline(ReadText(file))
    ELSE EscapedText(WithoutFinalNewline(ReadText(file)))

\* C21: a fragment's contents_changed is true if and only if process() has
\* gone through with write_back set and the reloaded contents differ from
\* the code; post_processed_code is the code while contents_changed is
\* false and the kind's hook applied to the reloaded contents once it is
\* true.  Without write_back the fragment is never marked changed and the
\* temp file is never read again, whatever the runner left in it.
C21_ChangedIffReloadDiffers ==
    frag_pc # "off" =>
        LET reloaded == Reloaded(frag, frag_files[TempPath(frag)])
        IN  /\ frag.contents_changed <=>
                   /\ frag_pc = "done"
                   /\ frag.write_back
                   /\ reloaded # frag.code
            /\ frag.post_processed_code =
                   IF frag.contents_changed THEN PostProcessContents(frag, reloaded)
                   ELSE frag.code
            /\ ~frag.write_back => EventsOf(frag_events, "read") = <<>>

\* A fragment without write_back has been processed by a runner that
\* rewrote its temp file: it is not marked changed.
C21_Witness ==
    /\ frag_pc = "done"
    /\ ~frag.write_back
    /\ frag_files[TempPath(frag)] # frag_events[1].contents
    /\ ~frag.contents_changed

\* A fragment with write_back set, whose code had no final line feed, has
\* been processed: the runner returned non-zero and changed the file.
C20_Witness ==
    /\ frag_pc = "done"
    /\ frag.write_back
    /\ frag.contents_changed
    /\ frag.code = <<"a">>
    /\ frag_returned = 2
    /\ Len(frag_events) = 3

-----------------------------------------------------------------------------
(* Properties of HoudiniPackageRunner.run (RunSpec).                       *)

\* The bitwise OR of statuses below 4, bit by bit.
OrOfStatuses(events) ==
    (IF \E k \in 1..Len(events) : events[k].status % 2 = 1 THEN 1 ELSE 0)
    + (IF \E k \in 1..Len(events) : (events[k].status \div 2) % 2 = 1 THEN 2 ELSE 0)

\* C15: with list_items set, run() calls process on no item, changes no
\* item's write_back flag and returns 0, whatever the runner's write_back.
C15_ListItemsOnly ==
    (run_pc # "off" /\ list_items) =>
        /\ EventsOf(run_events, "process") = <<>>
        /\ \A i \in 1..Len(discovered) : discovered[i].write_back = given[i]
        /\ run_pc \in {"start", "done"}
        /\ run_pc = "done" => run_returned = 0

\* run() has returned with list_items set, for a runner with write_back
\* and two or more items, one of them without write_back.
C15_Witness ==
    /\ run_pc = "done"
    /\ list_items
    /\ runner_write_back
    /\ Len(discovered) >= 2
    /\ \E i \in 1..Len(discovered) : ~discovered[i].write_back
    /\ Len(run_events) = Len(discovered)

\* C16: with list_items unset, run() calls process on every item once, in
\* the discoverer's order, also after an item returned non-zero; when the
\* runner's write_back is set the item's flag is true at its process call,
\* when it is not the flag is as the item was discovered; and the value
\* returned is the bitwise OR of the statuses.
C16_ProcessAllInOrder ==
    (run_pc # "off" /\ ~list_items) =>
        LET made == EventsOf(run_events, "process")
        IN  /\ made = run_events
            /\ \A k \in 1..Len(made) :
                   /\ made[k].position = k - 1
                   /\ made[k].write_back = (runner_write_back \/ given[k])
            /\ \A i \in 1..Len(discovered) :
                   discovered[i].write_back =
                       IF i <= Len(made) THEN runner_write_back \/ given[i]
                       ELSE given[i]
            /\ run_pc = "done" =>
                   /\ Len(made) = Len(discovered)
                   /\ run_returned = OrOfStatuses(made)

\* run() has returned after three items, the first returning 1, a later
\* one 2 and another 0, for a runner without write_back and items
\* discovered with and without the flag.
C16_Witness ==
    /\ run_pc = "done"
    /\ ~list_items
    /\ ~runner_write_back
    /\ Len(run_events) = 3
    /\ run_events[1].status = 1
    /\ {run_events[k].status : k \in 1..3} = {0, 1, 2}
    /\ run_returned = 3
    /\ {given[i] : i \in 1..3} = BOOLEAN

-----------------------------------------------------------------------------
(* Properties of BinaryDigitalAssetFile.process (AssetSpec).               *)

\* C17: the archive is expanded before any contained item is processed;
\* the collapse is invoked if and only if write_back is set and the
\* expanded directory reported contents_changed, and only after the
\* directory's processing has finished; when the expand command returns
\* non-zero an error is raised and neither processing nor collapse takes
\* place.
C17_ExpandProcessCollapse ==
    asset_pc # "off" =>
        LET e == asset_events
            collapses == EventsOf(e, "collapse")
            processed == EventsOf(e, "process")
            reported == \E k \in 1..Len(processed) : processed[k].changed
        IN  /\ asset_pc = "start" <=> e = <<>>
            /\ e # <<>> =>
                   /\ e[1].op = "extract"
                   /\ \A k \in 2..Len(e) : e[k].op # "extract"
                   /\ e[1].return_code # 0 => (Len(e) = 1 /\ asset_pc = "raised")
            /\ Len(collapses) <= 1
            /\ collapses # <<>> =>
                   /\ e[Len(e)].op = "collapse"
                   /\ asset.write_back /\ reported
                   /\ Len(processed) = operators
                   /\ \A k \in 1..Len(processed) : processed[k].status # None
            /\ asset_pc = "done" =>
                   /\ collapses # <<>> <=> (asset.write_back /\ reported)
                   /\ Len(processed) = operators
                   /\ asset.contents_changed = reported

\* An archive of two operators has been processed with write_back: the
\* second left its contents changed, and the directory was collapsed
\* after it.
C17_Witness ==
    /\ asset_pc = "done"
    /\ asset.write_back
    /\ Len(asset_events) = 4
    /\ asset_events[2].op = "process" /\ ~asset_events[2].changed
    /\ asset_events[3].op = "process" /\ asset_events[3].changed
    /\ asset_events[4].op = "collapse"
    /\ asset_returned # 0

-----------------------------------------------------------------------------
(* Third group of properties. *)

\* C22: from the end of the extraction on, before any fragment's process
\* and after it, every fragment of the container has write_back equal to
\* the container's write_back flag.
C22_WriteBackPropagated ==
    pc \in {"loop", "done"} =>
        \A i \in 1..Len(files_to_process) :
            files_to_process[i].write_back = write_back

\* A container with write_back set has extracted two fragments or more and
\* processed none yet.
C22_Witness ==
    /\ pc = "loop"
    /\ idx = 0
    /\ calls = <<>>
    /\ write_back
    /\ Len(files_to_process) >= 2
    /\ \A i \in 1..Len(files_to_process) : files_to_process[i].write_back

\* C23: within one container's run no two distinct fragments use the same
\* temporary file path, also when two parameter blocks carry the same
\* name.
C23_TempPathsDistinct ==
    pc \in {"loop", "done"} =>
        \A i, j \in 1..Len(files_to_process) :
            i # j => TempPath(files_to_process[i]) # TempPath(files_to_process[j])

\* The names an item of this kind leaves out of undefined-name checks.
BuiltinsOfKind(kind) ==
    IF kind = "default" THEN <<Hou>> ELSE <<Hou, Kwargs>>

\* C24: a fragment's ignored_builtins is fixed by its kind, hou and kwargs
\* for a callback or menu script item and hou alone for a default
\* expression item, and the runner's process_path leaves it as it was.
C24_IgnoredBuiltinsFixed ==
    frag_pc # "off" => frag.ignored_builtins = BuiltinsOfKind(frag.kind)

\* The entries of a default structure tagged python, in the order written.
PythonEntries(ds) ==
    LET Tagged(d) == d.lang = KwPython
    IN  SelectSeq(ds, Tagged)

\* A quoted text as the block's reader takes it: a backslash gives way to
\* the character after it.
RECURSIVE WithoutEscapes(_)
WithoutEscapes(t) ==
    IF t = <<>> THEN <<>>
    ELSE IF t[1] = BS /\ Len(t) >= 2
         THEN <<t[2]>> \o WithoutEscapes(SubSeq(t, 3, Len(t)))
         ELSE <<t[1]>> \o WithoutEscapes(Tail(t))

\* The lines of a menu script, a line feed between one and the next.
RECURSIVE MenuCode(_)
MenuCode(lines) ==
    IF lines = <<>> THEN <<>>
    ELSE IF Len(lines) = 1 THEN lines[1]
    ELSE lines[1] \o <<LF>> \o MenuCode(Tail(lines))

\* C25: for a parameter block with a name entry, extraction yields one
\* default expression item for each bracketed entry of the default
\* structure tagged python, in the order written, and none for an entry
\* with another tag, a quoted literal or a number; it yields at most one
\* callback item, from the first script_callback entry, and at most one
\* menu script item, from the first menu structure.
C25_DefaultsAllOthersFirst ==
    (Extracted /\ arg_item.block.name # <<>>) =>
        LET b == arg_item.block
            expected == PythonEntries(b.defaults)
            defaults == ItemsOfKind(out_items.items, "default")
            callbacks == ItemsOfKind(out_items.items, "callback")
            menus == ItemsOfKind(out_items.items, "menu_script")
            scripts == TagsOf(b, LitScriptCallback)
        IN  /\ ~out_items.raised
            /\ Len(defaults) = Len(expected)
            /\ \A i \in 1..Len(defaults) :
                   /\ defaults[i].code = WithoutEscapes(expected[i].raw)
                   /\ i > 1 => defaults[i - 1].end_offset < defaults[i].start_offset
            /\ Len(callbacks) <= 1
            /\ callbacks # <<>> => callbacks[1].code = scripts[1].value
            /\ Len(menus) = IF b.menu # <<>> THEN 1 ELSE 0
            /\ menus # <<>> => menus[1].code = MenuCode(b.menu)

\* A block whose default structure holds two Python expressions and an
\* entry that is not one has been extracted from: two default expression
\* items.
C25_Witness ==
    /\ Extracted
    /\ Len(arg_item.block.defaults) = 3
    /\ Len(PythonEntries(arg_item.block.defaults)) = 2
    /\ arg_item.block.defaults[2].lang # KwPython
    /\ ~out_items.raised
    /\ Len(ItemsOfKind(out_items.items, "default")) = 2

\* A block with two menu structures has been extracted from.
TwoMenusExtracted ==
    /\ Extracted
    /\ arg_item.block.menu2 # <<>>
    /\ Len(arg_item.block.menu) = 2
    /\ Len(out_items.items) = 2

\* C26: while and after an ExpandedOperatorType or a DigitalAssetDirectory
\* processes its children, its contents_changed is true if and only if it
\* was true before the call or a child processed so far had contents_changed
\* true after its own processing; when process() returns every child was
\* processed, once and in order, also after a child that returned non-zero;
\* and a BinaryDigitalAssetFile's flag after its directory was processed is
\* the directory's, whatever it was before.
C26_ChangedIsOrOfChildren ==
    asset_pc \in {"loop", "returned", "collapse", "done"} =>
        LET processed == EventsOf(asset_events, "process")
            reported == \E k \in 1..Len(processed) : processed[k].changed
        IN  /\ directory.contents_changed = (directory.changed_before \/ reported)
            /\ \A k \in 1..Len(processed) : processed[k].position = k - 1
            /\ asset_pc # "loop" =>
                   /\ Len(processed) = operators
                   /\ \A k \in 1..Len(processed) : processed[k].status # None
            /\ asset_pc \in {"collapse", "done"} =>
                   asset.contents_changed = directory.contents_changed

\* An operator type whose contents_changed was true before the call has
\* processed two children: the first returned non-zero, neither changed,
\* and the flag is still true.
C26_Witness ==
    /\ asset_pc = "returned"
    /\ directory.class = "ExpandedOperatorType"
    /\ directory.changed_before
    /\ Len(asset_events) = 2
    /\ asset_events[1].status # 0
    /\ ~asset_events[1].changed /\ ~asset_events[2].changed
    /\ directory.contents_changed
    /\ asset_returned # 0

\* C27: a fragment processed with write_back set by a runner that leaves
\* the temp file exactly as it was written is not marked changed, and its
\* post_processed_code is its code.
C27_PassThroughUnchanged ==
    (/\ frag_pc = "done"
     /\ frag.write_back
     /\ frag_files[TempPath(frag)] = frag_events[1].contents) =>
        /\ ~frag.contents_changed
        /\ frag.post_processed_code = frag.code

\* C28: after a write-back, the fragments extracted again from the
\* rewritten container are as many as before, and each changed fragment's
\* code is what the runner left in its temp file, less the final line feed.
C28_RoundTripThroughContainer ==
    (fn = "reextract" /\ fn_done) =>
        LET done == out_items.processed
            again == out_items.again
        IN  /\ ~again.raised
            /\ Len(again.items) = Len(done)
            /\ \A i \in 1..Len(done) :
                   done[i].contents_changed =>
                       again.items[i].code = WithoutFinalNewline(arg_item.out)

\* The run of spaces and tabs that ends just before offset pos of text.
RECURSIVE IndentRun(_, _)
IndentRun(text, pos) ==
    IF pos >= 1 /\ At(text, pos - 1) \in {SP, TAB}
    THEN IndentRun(text, pos - 1) \o <<At(text, pos - 1)>>
    ELSE <<>>

\* What stands between the first line feed of a re-encoded menu script and
\* the bracket of its second line.
SecondLinePrefix(code) ==
    LET first == Least({i \in 1..Len(code) : code[i] = LF})
        bracket == Least({i \in (first + 1)..Len(code) : code[i] = "["})
    IN  SubSeq(code, first + 1, bracket - 1)

\* C29: the prefix put before the second line of a re-encoded menu script
\* is, character for character, the run of spaces and tabs that stood just
\* before the first bracketed line of the original block.
C29_IndentationPreserved ==
    (/\ fn = "reinsert" /\ fn_done
     /\ arg_item.out = <<"x", LF, "y", LF>>
     /\ Len(out_items) = 1
     /\ out_items[1].kind = "menu_script"
     /\ out_items[1].contents_changed) =>
        SecondLinePrefix(out_items[1].post_processed_code)
            = IndentRun(arg_text, out_items[1].start_offset)

\* C30: once process() has written the container back, the container text
\* the item holds in memory is the text on disk.
C30_BufferFollowsWriteBack ==
    (pc = "done" /\ handled # <<>>) => ds_contents = disk

=============================================================================
